---------------------------- MODULE Spec2Model ----------------------------
(***************************************************************************)
(* IndoorMapParser: the XML tree walk of MapParser (indoorMapParser.h),    *)
(* the entity graph it builds (indoorMap.h) and the IndoorListener hooks   *)
(* it calls on the way.                                                    *)
(*                                                                         *)
(* Numbers.  A float is modelled as an integer count of hundredths         *)
(* (0.15f is 15, 4.0f is 400); NaN is a value outside that range.  The     *)
(* attribute texts of a document are strings, and std::stof / std::stoi /  *)
(* operator>>(bool) are tables from texts to values.                       *)
(***************************************************************************)
EXTENDS Integers, Sequences, FiniteSets, TLC

VARIABLES
    doc,        \* the file: [file, root]; root is the parsed xml_document
    entry,      \* which public method was called, and with which listener argument
    listener,   \* MapParser::listener, the dynamic type of the object it points to
    pc,         \* the position of the tree walk
    map,        \* processMap's local Map
    earthReg,   \* processEarthRegistration's local EarthRegistration
    floor,      \* the Floor local to the "floor" lambda of processMap
    wall,       \* the Wall local to the "wall" lambda of processObstacles
    fi,         \* index of the current "floor" element among the floor elements
    wi,         \* index of the current "wall" element among the wall elements
    ki,         \* index of the next point / door / window element of the running loop
    trace,      \* every hook call made so far, in order (history)
    result,     \* MapListener::map, what readMapFromFile returns
    err,        \* the exception that left readFromFile, "" when none
    obsLeft     \* how many more times the user's listener may veto or mutate

vars == <<doc, entry, listener, pc, map, earthReg, floor, wall, fi, wi, ki,
          trace, result, err, obsLeft>>

----------------------------------------------------------------------------
(* Bounds of the model *)

MaxObs == 2        \* vetoes / mutations a user listener makes in one parse
MaxWalls == 2      \* wall elements of an obstacles element
MaxWallKids == 2   \* child elements of a wall element
MaxFloors == 2     \* child elements of the floors element
MaxPoints == 2     \* point elements of a correspondences element
MaxSections == 2   \* child elements of a floor element, in the section family

----------------------------------------------------------------------------
(* rapidxml nodes *)

NoAtt == [a \in {} |-> ""]
Node(name, att, kids) == [name |-> name, att |-> att, kids |-> kids]
NullNode == Node("", NoAtt, <<>>)

\* foreachNode(node, nodeName, action): the children named nodeName, in
\* document order
foreachNode(node, nodeName) == SelectSeq(node.kids, LAMBDA n : n.name = nodeName)

\* xml_node::first_node(name): the first child of that name, nullptr if none
has_node(node, name) == foreachNode(node, name) # <<>>
first_node(node, name) ==
    IF has_node(node, name) THEN foreachNode(node, name)[1] ELSE NullNode

----------------------------------------------------------------------------
(* Attribute decoding *)

NaN == -999999
DefaultThickness == 15

\* std::stof / std::stoi on the texts the documents use: they convert the
\* longest numeric prefix of the text and ignore what follows it; texts
\* outside the table have no numeric prefix and make them throw
\* std::invalid_argument
StofTable ==
    ("0" :> 0) @@ ("1" :> 100) @@ ("2" :> 200) @@ ("3" :> 300) @@ ("4" :> 400)
    @@ ("0.25" :> 25) @@ ("0.5" :> 50) @@ ("0.75" :> 75) @@ ("10" :> 1000)
    @@ ("1abc" :> 100)
StoiTable ==
    ("0" :> 0) @@ ("1" :> 1) @@ ("2" :> 2) @@ ("3" :> 3) @@ ("4" :> 4)
    @@ ("0.25" :> 0) @@ ("0.5" :> 0) @@ ("0.75" :> 0) @@ ("10" :> 10)
    @@ ("1abc" :> 1)

tryGetAttribute(node, attName) == attName \in DOMAIN node.att

floatAttribute(node, attName, defaultValue) ==
    IF tryGetAttribute(node, attName) THEN StofTable[node.att[attName]]
    ELSE defaultValue

intAttribute(node, attName, defaultValue) ==
    IF tryGetAttribute(node, attName) THEN StoiTable[node.att[attName]]
    ELSE defaultValue

\* operator>> with std::boolalpha: "true" reads true; "false" reads false; any
\* other text fails the extraction, which stores false and throws nothing
boolAttribute(node, attName, defaultValue) ==
    IF tryGetAttribute(node, attName) THEN node.att[attName] = "true"
    ELSE defaultValue

strAttribute(node, attName, defaultValue) ==
    IF tryGetAttribute(node, attName) THEN node.att[attName] ELSE defaultValue

\* whether reading the float attributes fl and the int attributes in of node
\* throws (std::stof / std::stoi find no number)
AttributeThrows(node, fl, in) ==
    \/ \E a \in fl : tryGetAttribute(node, a) /\ node.att[a] \notin DOMAIN StofTable
    \/ \E a \in in : tryGetAttribute(node, a) /\ node.att[a] \notin DOMAIN StoiTable

----------------------------------------------------------------------------
(* Point2D *)

Point2D(x, y) == [x |-> x, y |-> y]
Abs(n) == IF n < 0 THEN 0 - n ELSE n
\* fixed-point product and quotient of two floats
FMul(a, b) == (a * b) \div 100
FDiv(a, b) == (a * 100) \div b

PAdd(p, q) == Point2D(p.x + q.x, p.y + q.y)
PSub(p, q) == Point2D(p.x - q.x, p.y - q.y)
PMul(p, v) == Point2D(FMul(p.x, v), FMul(p.y, v))
PDiv(p, v) == Point2D(FDiv(p.x, v), FDiv(p.y, v))
PLength(p) ==
    IF p.y = 0 THEN Abs(p.x)
    ELSE IF p.x = 0 THEN Abs(p.y)
    ELSE LET a == IF Abs(p.x) < Abs(p.y) THEN Abs(p.y) ELSE Abs(p.x)
             b == IF Abs(p.x) < Abs(p.y) THEN Abs(p.x) ELSE Abs(p.y)
         \* the integer square root lies between a + b*b/(2a+b) and a + b
         IN  CHOOSE r \in (a + (b * b) \div (2 * a + b))..(a + b) :
                r * r <= a * a + b * b /\ a * a + b * b < (r + 1) * (r + 1)
PNormalized(p) == PDiv(p, PLength(p))

----------------------------------------------------------------------------
(* Entities, as the parser fills them from an element *)

EarthPosMapPosOf(e) ==
    [lat |-> floatAttribute(e, "lat", 0), lon |-> floatAttribute(e, "lon", 0),
     alt |-> floatAttribute(e, "alt", 0), x |-> floatAttribute(e, "mx", 0),
     y |-> floatAttribute(e, "my", 0), z |-> floatAttribute(e, "mz", 0)]
EarthPosThrows(e) == AttributeThrows(e, {"lat", "lon", "alt", "mx", "my", "mz"}, {})

EmptyOutline == [polygons |-> <<>>]
EmptyEarthRegistration == [correspondences |-> <<>>]

NewMap(xMap) ==
    [width |-> floatAttribute(xMap, "width", 0),
     depth |-> floatAttribute(xMap, "depth", 0),
     earthRegistration |-> EmptyEarthRegistration,
     floors |-> <<>>]
MapThrows(xMap) == AttributeThrows(xMap, {"width", "depth"}, {})

\* mutant: one Floor object serves every floor element, and keeps its children
NewFloor_Reused(xFloor) ==
    IF map.floors = <<>>
    THEN [atHeight |-> floatAttribute(xFloor, "atHeight", 0),
          height |-> floatAttribute(xFloor, "height", 0),
          name |-> strAttribute(xFloor, "name", ""),
          outline |-> EmptyOutline,
          walls |-> <<>>, accessPoints |-> <<>>, beacons |-> <<>>,
          groundtruthPoints |-> <<>>, fingerprintLocations |-> <<>>, pois |-> <<>>]
    ELSE [map.floors[Len(map.floors)] EXCEPT
            !.atHeight = floatAttribute(xFloor, "atHeight", 0),
            !.height = floatAttribute(xFloor, "height", 0),
            !.name = strAttribute(xFloor, "name", "")]
NewFloor(xFloor) ==
    [atHeight |-> floatAttribute(xFloor, "atHeight", 0),
     height |-> floatAttribute(xFloor, "height", 0),
     name |-> strAttribute(xFloor, "name", ""),
     outline |-> EmptyOutline,
     walls |-> <<>>, accessPoints |-> <<>>, beacons |-> <<>>,
     groundtruthPoints |-> <<>>, fingerprintLocations |-> <<>>, pois |-> <<>>]
FloorThrows(xFloor) == AttributeThrows(xFloor, {"atHeight", "height"}, {})

PointOf(xPoint) == Point2D(floatAttribute(xPoint, "x", 0), floatAttribute(xPoint, "y", 0))
Polygon2DOf(xPolygon) ==
    [name |-> strAttribute(xPolygon, "name", ""),
     method |-> intAttribute(xPolygon, "method", 0),
     isOutdoor |-> boolAttribute(xPolygon, "outdoor", FALSE),
     points |-> LET ps == foreachNode(xPolygon, "point")
                IN  [i \in 1..Len(ps) |-> PointOf(ps[i])]]
PolygonThrows(xPolygon) ==
    \/ AttributeThrows(xPolygon, {}, {"method"})
    \/ \E i \in 1..Len(foreachNode(xPolygon, "point")) :
          AttributeThrows(foreachNode(xPolygon, "point")[i], {"x", "y"}, {})

PointOfInterestOf(xPoi) ==
    [name |-> strAttribute(xPoi, "name", ""), type |-> intAttribute(xPoi, "type", 0),
     x |-> floatAttribute(xPoi, "x", 0), y |-> floatAttribute(xPoi, "y", 0)]
PoiThrows(xPoi) == AttributeThrows(xPoi, {"x", "y"}, {"type"})

\* mutant: the floor's atHeight is not added
GroundtruthPointOf_Relative(xGTpoint, fl) ==
    [id |-> intAttribute(xGTpoint, "id", 0),
     x |-> floatAttribute(xGTpoint, "x", 0), y |-> floatAttribute(xGTpoint, "y", 0),
     heightAboveFloor |-> floatAttribute(xGTpoint, "z", 0),
     z |-> floatAttribute(xGTpoint, "z", 0)]
GroundtruthPointOf(xGTpoint, fl) ==
    [id |-> intAttribute(xGTpoint, "id", 0),
     x |-> floatAttribute(xGTpoint, "x", 0), y |-> floatAttribute(xGTpoint, "y", 0),
     heightAboveFloor |-> floatAttribute(xGTpoint, "z", 0),
     z |-> fl.atHeight + floatAttribute(xGTpoint, "z", 0)]
GTThrows(xGTpoint) == AttributeThrows(xGTpoint, {"x", "y", "z"}, {"id"})

AccessPointOf(xAccessPoint, fl) ==
    [name |-> strAttribute(xAccessPoint, "name", ""),
     macAddress |-> strAttribute(xAccessPoint, "mac", ""),
     x |-> floatAttribute(xAccessPoint, "x", 0), y |-> floatAttribute(xAccessPoint, "y", 0),
     heightAboveFloor |-> floatAttribute(xAccessPoint, "z", 0),
     z |-> fl.atHeight + floatAttribute(xAccessPoint, "z", 0),
     mdl_txp |-> floatAttribute(xAccessPoint, "mdl_txp", 0),
     mdl_exp |-> floatAttribute(xAccessPoint, "mdl_exp", 0),
     mdl_waf |-> floatAttribute(xAccessPoint, "mdl_waf", 0)]
APThrows(xAccessPoint) ==
    AttributeThrows(xAccessPoint, {"x", "y", "z", "mdl_txp", "mdl_exp", "mdl_waf"}, {})

BeaconOf(xBeacon, fl) ==
    [name |-> strAttribute(xBeacon, "name", ""),
     macAddress |-> strAttribute(xBeacon, "mac", ""),
     uuid |-> strAttribute(xBeacon, "uuid", ""),
     major |-> strAttribute(xBeacon, "major", ""),
     minor |-> strAttribute(xBeacon, "minor", ""),
     x |-> floatAttribute(xBeacon, "x", 0), y |-> floatAttribute(xBeacon, "y", 0),
     heightAboveFloor |-> floatAttribute(xBeacon, "z", 0),
     z |-> fl.atHeight + floatAttribute(xBeacon, "z", 0),
     mdl_txp |-> floatAttribute(xBeacon, "mdl_txp", 0),
     mdl_exp |-> floatAttribute(xBeacon, "mdl_exp", 0),
     mdl_waf |-> floatAttribute(xBeacon, "mdl_waf", 0)]
BeaconThrows(xBeacon) ==
    AttributeThrows(xBeacon, {"x", "y", "z", "mdl_txp", "mdl_exp", "mdl_waf"}, {})

FingerprintLocationOf(xLocation, fl) ==
    [name |-> strAttribute(xLocation, "name", ""),
     x |-> floatAttribute(xLocation, "x", 0), y |-> floatAttribute(xLocation, "y", 0),
     heightAboveFloor |-> floatAttribute(xLocation, "dz", 0),
     z |-> fl.atHeight + floatAttribute(xLocation, "dz", 0)]
FingerprintThrows(xLocation) == AttributeThrows(xLocation, {"x", "y", "dz"}, {})

\* the wall lambda of processObstacles up to the enterWall call
\* mutant: a height of zero is kept
WallHeight_ZeroKept(xWall, fl) ==
    LET h == floatAttribute(xWall, "height", NaN)
    IN  IF h = NaN THEN fl.height ELSE h
WallHeight(xWall, fl) ==
    LET h == floatAttribute(xWall, "height", NaN)
    IN  IF h = NaN \/ h = 0 THEN fl.height ELSE h
WallThickness(xWall) ==
    LET t == floatAttribute(xWall, "thickness", NaN)
    IN  IF t = NaN THEN DefaultThickness ELSE t
NewWall(xWall, fl) ==
    [material |-> intAttribute(xWall, "material", 0),
     type |-> intAttribute(xWall, "type", 0),
     x1 |-> floatAttribute(xWall, "x1", 0), y1 |-> floatAttribute(xWall, "y1", 0),
     x2 |-> floatAttribute(xWall, "x2", 0), y2 |-> floatAttribute(xWall, "y2", 0),
     thickness |-> WallThickness(xWall),
     height |-> WallHeight(xWall, fl),
     doors |-> <<>>, windows |-> <<>>, segments |-> <<>>]
WallThrows(xWall) ==
    AttributeThrows(xWall, {"x1", "y1", "x2", "y2", "height", "thickness"},
                    {"material", "type"})

WallDoorOf(xDoor) ==
    [type |-> intAttribute(xDoor, "type", 0),
     material |-> intAttribute(xDoor, "material", 0),
     atLinePos |-> floatAttribute(xDoor, "x01", 0),
     width |-> floatAttribute(xDoor, "width", 0),
     height |-> floatAttribute(xDoor, "heigth", 0),
     leftRight |-> boolAttribute(xDoor, "lr", FALSE),
     inOut |-> boolAttribute(xDoor, "io", FALSE)]
DoorThrows(xDoor) == AttributeThrows(xDoor, {"x01", "width", "heigth"}, {"type", "material"})

WallWindowOf(xWindow) ==
    [material |-> intAttribute(xWindow, "material", 0),
     atLinePos |-> floatAttribute(xWindow, "x01", 0),
     atHeigth |-> floatAttribute(xWindow, "y", 0),
     width |-> floatAttribute(xWindow, "width", 0),
     height |-> floatAttribute(xWindow, "height", 0),
     inOut |-> boolAttribute(xWindow, "io", FALSE)]
WindowThrows(xWindow) ==
    AttributeThrows(xWindow, {"x01", "y", "width", "height"}, {"material"})

WallStart(w) == Point2D(w.x1, w.y1)
WallEnd(w) == Point2D(w.x2, w.y2)


----------------------------------------------------------------------------
(* Wall segmentation *)

WallSegment2D(type, listIndex, start, end) ==
    [type |-> type, listIndex |-> listIndex, start |-> start, end |-> end]

\* if (seg.end.x < seg.start.x) std::swap(seg.start, seg.end)
SwapToAscendingX(seg) ==
    IF seg.end.x < seg.start.x
    THEN [seg EXCEPT !.start = seg.end, !.end = seg.start]
    ELSE seg

\* mutant: leftRight is not looked at, the door always runs towards the wall's end
DoorSegment_LeftRightIgnored(w, i) ==
    LET door  == w.doors[i]
        dir   == PSub(WallEnd(w), WallStart(w))
        start == PAdd(WallStart(w), PMul(dir, door.atLinePos))
        end   == PAdd(start, PMul(PNormalized(dir), door.width))
    IN  SwapToAscendingX(WallSegment2D("Door", i - 1, start, end))
\* the body of the door loop, for wall.doors[i] (listIndex is i - 1)
DoorSegment(w, i) ==
    LET door  == w.doors[i]
        dir   == PSub(WallEnd(w), WallStart(w))
        start == PAdd(WallStart(w), PMul(dir, door.atLinePos))
        end   == PAdd(start, PMul(PNormalized(dir),
                                  IF door.leftRight THEN 0 - door.width ELSE door.width))
    IN  SwapToAscendingX(WallSegment2D("Door", i - 1, start, end))

\* mutant: the window starts at its anchor instead of being centred on it
WindowSegment_FromAnchor(w, i) ==
    LET window == w.windows[i]
        dir    == PSub(WallEnd(w), WallStart(w))
        center == PAdd(WallStart(w), PMul(dir, window.atLinePos))
    IN  SwapToAscendingX(WallSegment2D("Window", i - 1, center,
                                       PAdd(center, PMul(PNormalized(dir), window.width))))
\* the body of the window loop, for wall.windows[i]
WindowSegment(w, i) ==
    LET window == w.windows[i]
        dir    == PSub(WallEnd(w), WallStart(w))
        center == PAdd(WallStart(w), PMul(dir, window.atLinePos))
        half   == PDiv(PMul(PNormalized(dir), window.width), 200)
    IN  SwapToAscendingX(WallSegment2D("Window", i - 1, PSub(center, half), PAdd(center, half)))

\* mutant: one counter numbers the doors and the windows
OpeningSegments_SharedIndex(w) ==
    [i \in 1..Len(w.doors) |-> DoorSegment(w, i)]
    \o [i \in 1..Len(w.windows) |->
            [WindowSegment(w, i) EXCEPT !.listIndex = Len(w.doors) + i - 1]]
\* the local vector segments before it is sorted: doors, then windows
OpeningSegments(w) ==
    [i \in 1..Len(w.doors) |-> DoorSegment(w, i)]
    \o [i \in 1..Len(w.windows) |-> WindowSegment(w, i)]

\* std::sort with a.start.x < b.start.x: the order of elements that compare
\* equal is unspecified, so every ascending arrangement is a possible result
std_sort(segs) ==
    LET n == Len(segs)
        perms == {p \in [1..n -> 1..n] : \A i, j \in 1..n : i # j => p[i] # p[j]}
    IN  {[i \in 1..n |-> segs[p[i]]] : p \in
            {q \in perms : \A i, j \in 1..n :
                i < j => ~(segs[q[j]].start.x < segs[q[i]].start.x)}}

\* mutant: the wall's endpoints are not put in ascending x
Stitch_Unnormalized(w, sorted) ==
    LET n == Len(sorted)
        filler(k) ==
            WallSegment2D("Wall", -1,
                          IF k = 1 THEN WallStart(w) ELSE sorted[k - 1].end,
                          IF k = n + 1 THEN WallEnd(w) ELSE sorted[k].start)
    IN  [j \in 1..(2 * n + 1) |->
            IF j % 2 = 1 THEN filler((j + 1) \div 2) ELSE sorted[j \div 2]]
\* mutant: a filler without length is left out
Stitch_NoEmptyFillers(w, sorted) ==
    LET n == Len(sorted)
        wStart == IF w.x2 < w.x1 THEN WallEnd(w) ELSE WallStart(w)
        wEnd   == IF w.x2 < w.x1 THEN WallStart(w) ELSE WallEnd(w)
        filler(k) ==
            WallSegment2D("Wall", -1,
                          IF k = 1 THEN wStart ELSE sorted[k - 1].end,
                          IF k = n + 1 THEN wEnd ELSE sorted[k].start)
    IN  SelectSeq([j \in 1..(2 * n + 1) |->
                      IF j % 2 = 1 THEN filler((j + 1) \div 2) ELSE sorted[j \div 2]],
                  LAMBDA sg : sg.type # "Wall" \/ sg.start # sg.end)
\* the stitching loop over the sorted openings
Stitch(w, sorted) ==
    LET n == Len(sorted)
        wStart == IF w.x2 < w.x1 THEN WallEnd(w) ELSE WallStart(w)
        wEnd   == IF w.x2 < w.x1 THEN WallStart(w) ELSE WallEnd(w)
        filler(k) ==  \* the k-th Wall-type segment, k in 1..n+1
            WallSegment2D("Wall", -1,
                          IF k = 1 THEN wStart ELSE sorted[k - 1].end,
                          IF k = n + 1 THEN wEnd ELSE sorted[k].start)
    IN  [j \in 1..(2 * n + 1) |->
            IF j % 2 = 1 THEN filler((j + 1) \div 2) ELSE sorted[j \div 2]]

\* mutant: no early return for a wall without openings
generateWallSegments_NoEarlyReturn(w, sorted) ==
    [w EXCEPT !.segments = @ \o Stitch(w, sorted)]
\* generateWallSegments(wall), given the outcome of its std::sort call
generateWallSegments(w, sorted) ==
    IF Len(w.doors) = 0 /\ Len(w.windows) = 0
    THEN [w EXCEPT !.segments =
            Append(@, WallSegment2D("Wall", -1, WallStart(w), WallEnd(w)))]
    ELSE [w EXCEPT !.segments = @ \o Stitch(w, sorted)]

----------------------------------------------------------------------------
(* Listeners *)

\* The listener classes: IndoorListener (every hook a no-op returning true),
\* MapListener (leaveMap keeps a copy of the map) and a user-written subclass,
\* whose hooks may return false or change the entity they are handed.
ListenerArgs == {"null", "IndoorListener", "UserListener"}

Cost(c) == IF c = "pass" THEN 0 ELSE 1

\* what a hook of the current listener can do with left interventions to spend
Choices(left, vetoable, mutable) ==
    IF listener = "UserListener" /\ left > 0
    THEN {"pass"} \cup (IF vetoable THEN {"veto"} ELSE {})
                  \cup (IF mutable THEN {"mutate"} ELSE {})
    ELSE {"pass"}

\* the field changes the user's listener makes when it mutates
TouchMap(m) == [m EXCEPT !.width = @ + 100]
TouchEarthPos(p) == [p EXCEPT !.alt = @ + 100]
TouchEarthReg(e) ==
    [e EXCEPT !.correspondences = [i \in 1..Len(@) |-> TouchEarthPos(@[i])]]
TouchFloor(f) == [f EXCEPT !.name = "obs", !.height = @ + 100, !.atHeight = @ + 100]
TouchOutline(o) ==
    [o EXCEPT !.polygons = [i \in 1..Len(@) |-> [@[i] EXCEPT !.name = "obs"]]]
TouchNamed(s) == [i \in 1..Len(s) |-> [s[i] EXCEPT !.name = "obs"]]
TouchGT(s) == [i \in 1..Len(s) |-> [s[i] EXCEPT !.id = @ + 100]]
TouchElement(x) == [x EXCEPT !.material = (@ + 1) % 7]

Ev(hook, path, arg, c, out) ==
    [hook |-> hook, path |-> path, arg |-> arg, c |-> c, out |-> out]

\* a call of a void hook with choice c: the event, and the entity afterwards
After(c, touched, v) == IF c = "mutate" THEN touched ELSE v

----------------------------------------------------------------------------
(* Documents *)

Doc(mapNode) == [file |-> "ok", root |-> Node("", NoAtt, <<mapNode>>)]
UpToSeqs(S, n) == UNION {[1..k -> S] : k \in 0..n}

MapAtt == ("width" :> "10") @@ ("depth" :> "4")
FloorAtt == ("atHeight" :> "3") @@ ("height" :> "3") @@ ("name" :> "f")

DoorA == Node("door", ("x01" :> "0") @@ ("width" :> "1") @@ ("material" :> "2"), <<>>)
DoorB == Node("door", ("x01" :> "0.5") @@ ("width" :> "1") @@ ("lr" :> "true"), <<>>)
WinA == Node("window", ("x01" :> "0.75") @@ ("width" :> "1") @@ ("y" :> "1"), <<>>)
WallAttA == ("x1" :> "0") @@ ("y1" :> "0") @@ ("x2" :> "4") @@ ("y2" :> "0")
WallAttB == ("x1" :> "4") @@ ("y1" :> "0") @@ ("x2" :> "0") @@ ("y2" :> "3")
            @@ ("height" :> "2") @@ ("thickness" :> "0.5") @@ ("material" :> "1")
WallAttC == WallAttA @@ ("height" :> "0") @@ ("thickness" :> "0")

OneFloor(kids) == Doc(Node("map", MapAtt, <<Node("floors", NoAtt,
                        <<Node("floor", FloorAtt, kids)>>)>>))

\* one wall, with every arrangement of doors and windows under it
WallDocs ==
    {OneFloor(<<Node("obstacles", NoAtt, <<Node("wall", WallAttA, kids)>>)>>) :
        kids \in UpToSeqs({DoorA, DoorB, WinA}, MaxWallKids)}
    \cup {OneFloor(<<Node("obstacles", NoAtt, <<Node("wall", WallAttB, kids)>>)>>) :
        kids \in {<<>>, <<WinA, DoorA>>, <<DoorB, WinA>>}}
    \cup {OneFloor(<<Node("obstacles", NoAtt, <<Node("wall", WallAttC, <<>>)>>)>>)}

\* several obstacles, walls and others
WallPlain == Node("wall", WallAttA, <<>>)
WallWithDoor == Node("wall", WallAttB, <<DoorA>>)
Line == Node("line", WallAttA, <<DoorA>>)
ObstacleDocs ==
    {OneFloor(<<Node("obstacles", NoAtt, kids)>>) :
        kids \in UpToSeqs({WallPlain, WallWithDoor, Line}, MaxWalls)}

\* the sections of a floor, in every order
XY == ("x" :> "1") @@ ("y" :> "2")
XYZ == XY @@ ("z" :> "0.5")
SectionElems ==
    {Node("outline", NoAtt, <<Node("polygon", ("name" :> "p") @@ ("method" :> "1"),
                                   <<Node("point", XY, <<>>)>>)>>),
     Node("obstacles", NoAtt, <<WallPlain>>),
     Node("pois", NoAtt, <<Node("poi", XY @@ ("name" :> "room"), <<>>)>>),
     Node("gtpoints", NoAtt, <<Node("gtpoint", XYZ @@ ("id" :> "3"), <<>>)>>),
     Node("accesspoints", NoAtt, <<Node("accesspoint", XYZ @@ ("name" :> "ap"), <<>>)>>),
     Node("beacons", NoAtt, <<Node("beacon", XYZ @@ ("name" :> "b"), <<>>)>>),
     Node("fingerprints", NoAtt, <<Node("location", XY @@ ("dz" :> "1") @@ ("name" :> "l"), <<>>)>>)}
SectionOf(name) == CHOOSE s \in SectionElems : s.name = name
FullFloorKids ==
    <<SectionOf("fingerprints"), SectionOf("beacons"), SectionOf("accesspoints"),
      SectionOf("gtpoints"), SectionOf("pois"), SectionOf("obstacles"),
      SectionOf("outline")>>
SectionDocs ==
    {OneFloor(kids) : kids \in UpToSeqs(SectionElems, MaxSections)}
    \cup {OneFloor(FullFloorKids)}

\* the map level: the earth registration and the floors
PointA == Node("point", ("lat" :> "1") @@ ("mx" :> "2"), <<>>)
EarthRegs ==
    {<<>>, <<Node("earthReg", NoAtt, <<>>)>>}
    \cup {<<Node("earthReg", NoAtt, <<Node("correspondences", NoAtt, pts)>>)>> :
            pts \in UpToSeqs({PointA}, MaxPoints)}
FloorEmpty == Node("floor", FloorAtt, <<>>)
FloorOutline == Node("floor", ("atHeight" :> "0") @@ ("name" :> "g"),
                     <<Node("outline", NoAtt, <<>>)>>)
Stairs == Node("stairs", NoAtt, <<FloorEmpty>>)
FloorLists ==
    {<<>>} \cup {<<Node("floors", NoAtt, fs)>> :
                    fs \in UpToSeqs({FloorEmpty, FloorOutline, Stairs}, MaxFloors)}
\* a floor with children: an outline of one polygon, and one wall
FloorFurnished ==
    Node("floor", FloorAtt,
         <<Node("outline", NoAtt,
                <<Node("polygon", NoAtt, <<Node("point", ("x" :> "1") @@ ("y" :> "2"), <<>>)>>)>>),
           Node("obstacles", NoAtt, <<Node("wall", WallAttA, <<>>)>>)>>)
MapDocs ==
    {Doc(Node("map", MapAtt, <<Node("floors", NoAtt, <<FloorEmpty>>)>> \o er)) : er \in EarthRegs}
    \cup {Doc(Node("map", MapAtt, <<Node("floors", NoAtt, <<FloorFurnished, FloorEmpty>>)>>))}
    \cup {Doc(Node("map", MapAtt, er \o fl)) :
            er \in {<<>>, <<Node("earthReg", NoAtt, <<>>)>>}, fl \in FloorLists}

\* documents the parse cannot get through
Bad == "abc"
BadDocs ==
    {[file |-> "missing", root |-> NullNode],
     [file |-> "malformed", root |-> NullNode],
     [file |-> "ok", root |-> Node("", NoAtt, <<Node("building", NoAtt, <<>>)>>)],
     Doc(Node("map", ("width" :> Bad), <<>>)),
     Doc(Node("map", MapAtt, <<Node("earthReg", NoAtt, <<Node("correspondences", NoAtt,
            <<PointA, Node("point", ("alt" :> Bad), <<>>)>>)>>)>>)),
     Doc(Node("map", MapAtt, <<Node("floors", NoAtt,
            <<FloorEmpty, Node("floor", ("height" :> Bad), <<>>)>>)>>))}
    \cup {OneFloor(<<Node(s.name, NoAtt, s.kids \o
                        <<Node(s.kids[1].name, ("x" :> Bad) @@ ("x1" :> Bad), <<>>)>>)>>) :
            s \in SectionElems \ {SectionOf("outline")}}
    \cup {OneFloor(<<Node("outline", NoAtt,
                        <<Node("polygon", NoAtt, <<Node("point", ("y" :> Bad), <<>>)>>)>>)>>),
          OneFloor(<<Node("obstacles", NoAtt,
                        <<Node("wall", WallAttA, <<DoorA, Node("door", ("width" :> Bad), <<>>)>>)>>)>>),
          OneFloor(<<Node("obstacles", NoAtt,
                        <<Node("wall", WallAttA, <<DoorA, Node("window", ("width" :> Bad), <<>>)>>)>>)>>)}

\* documents with attribute texts that are no number or boolean, or no
\* ordinal of an enumerator, and that the parse gets through all the same
LenientDocs ==
    {OneFloor(<<Node("obstacles", NoAtt,
                <<Node("wall", WallAttA, <<Node("door", ("x01" :> "0.5") @@ ("lr" :> "yes"), <<>>)>>)>>)>>),
     OneFloor(<<Node("pois", NoAtt, <<Node("poi", ("x" :> "1abc") @@ ("type" :> "1"), <<>>)>>)>>),
     OneFloor(<<Node("obstacles", NoAtt,
                <<Node("wall", WallAttA @@ ("material" :> "0.5"), <<>>)>>)>>),
     OneFloor(<<Node("obstacles", NoAtt,
                <<Node("wall", WallAttA @@ ("material" :> "10") @@ ("type" :> "10"),
                       <<Node("door", ("type" :> "10"), <<>>)>>)>>)>>),
     OneFloor(<<Node("outline", NoAtt,
                <<Node("polygon", ("method" :> "2") @@ ("outdoor" :> "true"), <<>>)>>)>>)}

Docs == WallDocs \cup ObstacleDocs \cup SectionDocs \cup MapDocs \cup BadDocs \cup LenientDocs


----------------------------------------------------------------------------
(* The elements the walk is at *)

xMap == first_node(doc.root, "map")
xPointList == foreachNode(first_node(first_node(xMap, "earthReg"), "correspondences"), "point")
xFloorList == foreachNode(first_node(xMap, "floors"), "floor")
xFloor == xFloorList[fi]
xWallList == foreachNode(first_node(xFloor, "obstacles"), "wall")
xWall == xWallList[wi]
xDoorList == foreachNode(xWall, "door")
xWindowList == foreachNode(xWall, "window")

NoMap == NewMap(NullNode)
NoFloor == NewFloor(NullNode)
NoWall == NewWall(NullNode, NoFloor)

Init ==
    /\ doc \in Docs
    /\ entry = [method |-> "", arg |-> "", call |-> 0, prev |-> <<>>]
    /\ listener = "null"
    /\ pc = "start"
    /\ map = NoMap
    /\ earthReg = EmptyEarthRegistration
    /\ floor = NoFloor
    /\ wall = NoWall
    /\ fi = 0 /\ wi = 0 /\ ki = 0
    /\ trace = <<>>
    /\ result = <<>>
    /\ err = ""
    /\ obsLeft = MaxObs

\* mutant: the exception is swallowed and the walk goes on to leaveMap
Throw_Swallowed(e, evs, spent) ==
    /\ pc' = "leaveMap"
    /\ err' = e
    /\ trace' = trace \o evs
    /\ obsLeft' = obsLeft - spent
    /\ UNCHANGED <<doc, entry, listener, map, earthReg, floor, wall, fi, wi, ki, result>>
\* an exception leaves readFromFile after the hook calls evs, spent interventions later
Throw(e, evs, spent) ==
    /\ pc' = "failed"
    /\ err' = e
    /\ trace' = trace \o evs
    /\ obsLeft' = obsLeft - spent
    /\ UNCHANGED <<doc, entry, listener, map, earthReg, floor, wall, fi, wi, ki, result>>

----------------------------------------------------------------------------
(* readFromFile / readMapFromFile *)

\* mutant: a null listener is kept
ListenerFor_Kept(arg) == arg
\* if (!listener) listener = std::make_shared<IndoorListener>()
ListenerFor(arg) == IF arg = "null" THEN "IndoorListener" ELSE arg

\* mutant: the stream is not tested with is_open()
Open_Unchecked(method, arg, call, prev) ==
    /\ entry' = [method |-> method, arg |-> arg, call |-> call, prev |-> prev]
    /\ listener' = ListenerFor(arg)
    /\ map' = NoMap /\ earthReg' = EmptyEarthRegistration
    /\ floor' = NoFloor /\ wall' = NoWall
    /\ fi' = 0 /\ wi' = 0 /\ ki' = 0
    /\ trace' = <<>>
    /\ result' = <<>>
    /\ obsLeft' = MaxObs
    /\ UNCHANGED doc
    /\ IF doc.file \in {"missing", "malformed"}
       THEN pc' = "failed" /\ err' = "rapidxml::parse_error"
       ELSE pc' = "processMap" /\ err' = ""
\* the body of readFromFile up to the call of processMap
Open(method, arg, call, prev) ==
    /\ entry' = [method |-> method, arg |-> arg, call |-> call, prev |-> prev]
    /\ listener' = ListenerFor(arg)
    /\ map' = NoMap /\ earthReg' = EmptyEarthRegistration
    /\ floor' = NoFloor /\ wall' = NoWall
    /\ fi' = 0 /\ wi' = 0 /\ ki' = 0
    /\ trace' = <<>>
    /\ result' = <<>>
    /\ obsLeft' = MaxObs
    /\ UNCHANGED doc
    /\ IF doc.file = "missing"
       THEN pc' = "failed" /\ err' = "runtime_error: Indoor map file not found"
       ELSE IF doc.file = "malformed"
       THEN pc' = "failed" /\ err' = "rapidxml::parse_error"
       ELSE pc' = "processMap" /\ err' = ""

ReadFromFile ==
    /\ pc = "start"
    /\ \E arg \in ListenerArgs : Open("readFromFile", arg, 1, <<>>)

ReadMapFromFile ==
    /\ pc = "start"
    /\ Open("readMapFromFile", "MapListener", 1, <<>>)

\* a second readFromFile call on the same file, now with a default listener,
\* after a readFromFile call that was given no listener or after a
\* readMapFromFile call (in a new process when the first one crashed); prev
\* keeps how the first one ended
ReadFromFileAgain ==
    /\ pc \in {"done", "failed", "crashed"}
    /\ entry.call = 1
    /\ \/ entry.method = "readFromFile" /\ entry.arg = "null"
       \/ entry.method = "readMapFromFile"
    /\ Open("readFromFile", "IndoorListener", 2,
            <<[method |-> entry.method, pc |-> pc, err |-> err, map |-> map,
               trace |-> trace, result |-> result]>>)

----------------------------------------------------------------------------
(* processMap, processEarthRegistration *)

FloorLoop(i) == IF i <= Len(xFloorList) THEN <<"processFloor", i>> ELSE <<"leaveMap", 0>>

\* mutant: the earthReg element is not looked for
AfterEnterMap_NoEarthReg == FloorLoop(1)
\* xml_node* xEarthReg = xMap->first_node("earthReg"); if (xEarthReg) ...
AfterEnterMap ==
    IF has_node(xMap, "earthReg") THEN <<"processEarthRegistration", 0>> ELSE FloorLoop(1)

ProcessMap ==
    /\ pc = "processMap"
    /\ IF ~has_node(doc.root, "map") \/ listener = "null"
       THEN \* a null xMap (or a null listener) is dereferenced
            /\ pc' = "crashed"
            /\ UNCHANGED <<doc, entry, listener, map, earthReg, floor, wall, fi, wi, ki,
                           trace, result, err, obsLeft>>
       ELSE IF MapThrows(xMap) THEN Throw("std::invalid_argument", <<>>, 0)
       ELSE \E c \in Choices(obsLeft, FALSE, TRUE) :
            LET m == NewMap(xMap)
                out == After(c, TouchMap(m), m)
            IN  /\ map' = out
                /\ trace' = Append(trace, Ev("enterMap", <<>>, m, c, out))
                /\ obsLeft' = obsLeft - Cost(c)
                /\ pc' = AfterEnterMap[1] /\ fi' = AfterEnterMap[2]
                /\ UNCHANGED <<doc, entry, listener, earthReg, floor, wall, wi, ki, result, err>>

ProcessEarthRegistration ==
    /\ pc = "processEarthRegistration"
    /\ LET e == EmptyEarthRegistration
       IN  /\ earthReg' = e
           /\ trace' = Append(trace, Ev("enterEarthRegistration", <<>>, e, "pass", e))
           /\ IF xPointList # <<>>
              THEN pc' = "processEarthPosMapPos" /\ ki' = 1
              ELSE pc' = "leaveEarthRegistration" /\ ki' = 0
           /\ UNCHANGED <<doc, entry, listener, map, floor, wall, fi, wi, result, err, obsLeft>>

\* what the correspondences vector gets: the position as enterEarthPosMapPos left it
StoredEarthPos(afterEnter, afterLeave) == afterEnter

ProcessEarthPosMapPos ==
    /\ pc = "processEarthPosMapPos"
    /\ IF EarthPosThrows(xPointList[ki]) THEN Throw("std::invalid_argument", <<>>, 0)
       ELSE \E c1 \in Choices(obsLeft, FALSE, TRUE) :
            \E c2 \in Choices(obsLeft - Cost(c1), FALSE, TRUE) :
            LET pos == EarthPosMapPosOf(xPointList[ki])
                p1 == After(c1, TouchEarthPos(pos), pos)
                p2 == After(c2, TouchEarthPos(p1), p1)
            IN  /\ earthReg' = [earthReg EXCEPT !.correspondences =
                                    Append(@, StoredEarthPos(p1, p2))]
                /\ trace' = trace \o <<Ev("enterEarthPosMapPos", <<ki>>, pos, c1, p1),
                                       Ev("leaveEarthPosMapPos", <<ki>>, p1, c2, p2)>>
                /\ obsLeft' = obsLeft - Cost(c1) - Cost(c2)
                /\ IF ki < Len(xPointList)
                   THEN pc' = pc /\ ki' = ki + 1
                   ELSE pc' = "leaveEarthRegistration" /\ ki' = 0
                /\ UNCHANGED <<doc, entry, listener, map, floor, wall, fi, wi, result, err>>

LeaveEarthRegistration ==
    /\ pc = "leaveEarthRegistration"
    /\ \E c \in Choices(obsLeft, FALSE, earthReg.correspondences # <<>>) :
        LET out == After(c, TouchEarthReg(earthReg), earthReg)
        IN  /\ map' = [map EXCEPT !.earthRegistration = out]
            /\ earthReg' = EmptyEarthRegistration
            /\ trace' = Append(trace, Ev("leaveEarthRegistration", <<>>, earthReg, c, out))
            /\ obsLeft' = obsLeft - Cost(c)
            /\ pc' = FloorLoop(1)[1] /\ fi' = FloorLoop(1)[2]
            /\ UNCHANGED <<doc, entry, listener, floor, wall, wi, ki, result, err>>

\* mutant: MapListener::leaveMap keeps nothing
LeaveMap_NoCapture ==
    /\ pc = "leaveMap"
    /\ \E c \in Choices(obsLeft, FALSE, TRUE) :
        LET out == After(c, TouchMap(map), map)
        IN  /\ map' = out
            /\ trace' = Append(trace, Ev("leaveMap", <<>>, map, c, out))
            /\ obsLeft' = obsLeft - Cost(c)
            /\ pc' = "done"
            /\ UNCHANGED <<doc, entry, listener, earthReg, floor, wall, fi, wi, ki, err, result>>
LeaveMap ==
    /\ pc = "leaveMap"
    /\ \E c \in Choices(obsLeft, FALSE, TRUE) :
        LET out == After(c, TouchMap(map), map)
        IN  /\ map' = out
            /\ trace' = Append(trace, Ev("leaveMap", <<>>, map, c, out))
            /\ obsLeft' = obsLeft - Cost(c)
            \* MapListener::leaveMap: this->map = std::make_shared<Map>(map)
            /\ result' = IF listener = "MapListener" THEN <<map>> ELSE result
            /\ pc' = "done"
            /\ UNCHANGED <<doc, entry, listener, earthReg, floor, wall, fi, wi, ki, err>>


----------------------------------------------------------------------------
(* processFloor *)

\* mutant: the points of interest are looked for before the obstacles
FloorSections_Swapped ==
    <<"outline", "pois", "obstacles", "gtpoints", "accesspoints", "beacons", "fingerprints">>
\* the order in which processFloor looks for the child elements of a floor
FloorSections ==
    <<"outline", "obstacles", "pois", "gtpoints", "accesspoints", "beacons", "fingerprints">>

SectionIndex(name) ==
    IF name = "" THEN 0 ELSE CHOOSE k \in 1..Len(FloorSections) : FloorSections[k] = name

\* the next section of xf that processFloor finds after section `after`
\* (if (xOutline) ..., if (xObstacles) ...), "leaveFloor" when none is left
\* mutant: the next section is processed whether its element is there or not
NextSection_Unchecked(xf, after) ==
    IF SectionIndex(after) < Len(FloorSections)
    THEN FloorSections[SectionIndex(after) + 1] ELSE "leaveFloor"
NextSection(xf, after) ==
    LET S == {k \in (SectionIndex(after) + 1)..Len(FloorSections) :
                has_node(xf, FloorSections[k])}
    IN  IF S = {} THEN "leaveFloor"
        ELSE FloorSections[CHOOSE k \in S : \A j \in S : k <= j]

\* mutant: the result of enterFloor is ignored
EnterFloorOk_Ignored(c) == TRUE
\* if (!listener->enterFloor(floor)) return false;
EnterFloorOk(c) == c # "veto"

ProcessFloor ==
    /\ pc = "processFloor"
    /\ IF FloorThrows(xFloor) THEN Throw("std::invalid_argument", <<>>, 0)
       ELSE \E c \in Choices(obsLeft, TRUE, TRUE) :
            LET f == NewFloor(xFloor)
                out == After(c, TouchFloor(f), f)
            IN  /\ trace' = Append(trace, Ev("enterFloor", <<fi>>, f, c, out))
                /\ obsLeft' = obsLeft - Cost(c)
                /\ IF EnterFloorOk(c)
                   THEN floor' = out /\ pc' = NextSection(xFloor, "") /\ fi' = fi
                   ELSE floor' = NoFloor /\ pc' = FloorLoop(fi + 1)[1] /\ fi' = FloorLoop(fi + 1)[2]
                /\ UNCHANGED <<doc, entry, listener, map, earthReg, wall, wi, ki, result, err>>

LeaveFloor ==
    /\ pc = "leaveFloor"
    /\ \E c \in Choices(obsLeft, FALSE, TRUE) :
        LET out == After(c, TouchFloor(floor), floor)
        IN  /\ trace' = Append(trace, Ev("leaveFloor", <<fi>>, floor, c, out))
            /\ obsLeft' = obsLeft - Cost(c)
            \* processFloor returned true: map.floors.push_back(floor)
            /\ map' = [map EXCEPT !.floors = Append(@, out)]
            /\ floor' = NoFloor
            /\ pc' = FloorLoop(fi + 1)[1] /\ fi' = FloorLoop(fi + 1)[2]
            /\ UNCHANGED <<doc, entry, listener, earthReg, wall, wi, ki, result, err>>

----------------------------------------------------------------------------
(* processOutline *)

\* mutant: the result of enterOutline is ignored
EnterOutlineOk_Ignored(c) == TRUE
EnterOutlineOk(c) == c # "veto"

ProcessOutline ==
    /\ pc = "outline"
    /\ \E c1 \in Choices(obsLeft, TRUE, FALSE) :
        LET xOutline == first_node(xFloor, "outline")
            xPolygons == foreachNode(xOutline, "polygon")
            e1 == Ev("enterOutline", <<fi>>, EmptyOutline, c1, EmptyOutline)
            outline == [polygons |-> [i \in 1..Len(xPolygons) |-> Polygon2DOf(xPolygons[i])]]
        IN  IF ~EnterOutlineOk(c1)
            THEN /\ trace' = Append(trace, e1)
                 /\ obsLeft' = obsLeft - Cost(c1)
                 /\ pc' = NextSection(xFloor, "outline")
                 /\ UNCHANGED <<doc, entry, listener, map, earthReg, floor, wall,
                                fi, wi, ki, result, err>>
            ELSE IF \E i \in 1..Len(xPolygons) : PolygonThrows(xPolygons[i])
            THEN Throw("std::invalid_argument", <<e1>>, Cost(c1))
            ELSE \E c2 \in Choices(obsLeft - Cost(c1), FALSE, outline.polygons # <<>>) :
                 LET out == After(c2, TouchOutline(outline), outline)
                 IN  /\ trace' = trace \o <<e1, Ev("leaveOutline", <<fi>>, outline, c2, out)>>
                     /\ obsLeft' = obsLeft - Cost(c1) - Cost(c2)
                     \* processOutline returned true: floor.outline = outline
                     /\ floor' = [floor EXCEPT !.outline = out]
                     /\ pc' = NextSection(xFloor, "outline")
                     /\ UNCHANGED <<doc, entry, listener, map, earthReg, wall,
                                    fi, wi, ki, result, err>>

----------------------------------------------------------------------------
(* processPointOfInterests ... processFingerprints: enter hook, one entity
   per matching child appended to the floor's vector, leave hook *)

\* the entity a child element of a collection is decoded to
EntityOf(childName, x, fl) ==
    CASE childName = "poi" -> PointOfInterestOf(x)
      [] childName = "gtpoint" -> GroundtruthPointOf(x, fl)
      [] childName = "accesspoint" -> AccessPointOf(x, fl)
      [] childName = "beacon" -> BeaconOf(x, fl)
      [] childName = "location" -> FingerprintLocationOf(x, fl)

EntityThrows(childName, x) ==
    CASE childName = "poi" -> PoiThrows(x)
      [] childName = "gtpoint" -> GTThrows(x)
      [] childName = "accesspoint" -> APThrows(x)
      [] childName = "beacon" -> BeaconThrows(x)
      [] childName = "location" -> FingerprintThrows(x)

\* what an override of the leave hook of a collection changes
TouchCollection(childName, s) == IF childName = "gtpoint" THEN TouchGT(s) ELSE TouchNamed(s)

Collection(section, field, enterHook, leaveHook, childName) ==
    /\ pc = section
    /\ LET xs == foreachNode(first_node(xFloor, section), childName)
           before == floor[field]
           e1 == Ev(enterHook, <<fi>>, before, "pass", before)
           filled == before \o [i \in 1..Len(xs) |-> EntityOf(childName, xs[i], floor)]
       IN  IF \E i \in 1..Len(xs) : EntityThrows(childName, xs[i])
           THEN Throw("std::invalid_argument", <<e1>>, 0)
           ELSE \E c \in Choices(obsLeft, FALSE, filled # <<>>) :
                LET out == After(c, TouchCollection(childName, filled), filled)
                IN  /\ trace' = trace \o <<e1, Ev(leaveHook, <<fi>>, filled, c, out)>>
                    /\ obsLeft' = obsLeft - Cost(c)
                    /\ floor' = [floor EXCEPT ![field] = out]
                    /\ pc' = NextSection(xFloor, section)
                    /\ UNCHANGED <<doc, entry, listener, map, earthReg, wall,
                                   fi, wi, ki, result, err>>

ProcessPointOfInterests ==
    Collection("pois", "pois", "enterPointOfInterests", "leavePointOfInterests", "poi")
ProcessGroundtruthPoints ==
    Collection("gtpoints", "groundtruthPoints", "enterGrundtruthPoints",
               "leaveGrundtruthPoints", "gtpoint")
ProcessAccessPoints ==
    Collection("accesspoints", "accessPoints", "enterAccessPoints", "leaveAccessPoints",
               "accesspoint")
ProcessBeacons ==
    Collection("beacons", "beacons", "enterBeacons", "leaveBeacons", "beacon")
ProcessFingerprints ==
    Collection("fingerprints", "fingerprintLocations", "enterFingerprintLocations",
               "leaveFingerprintLocations", "location")

----------------------------------------------------------------------------
(* processObstacles *)

WallLoop(i) == IF i <= Len(xWallList) THEN <<"processWall", i>> ELSE <<"leaveWalls", 0>>

\* mutant: the windows loop stands before the doors loop
WallKidOrder_WindowsFirst == <<"window", "door">>
\* the two foreachNode loops of the wall lambda, in the order they are written
WallKidOrder == <<"door", "window">>

\* where the wall lambda goes on when child i of the loop over `kind` is next:
\* to that child, else to the first child of a later loop, else to the end
KidLoop(kind, i) ==
    LET n(kd) == Len(foreachNode(xWall, kd))
        pos == IF kind = "" THEN 0
               ELSE CHOOSE k \in 1..Len(WallKidOrder) : WallKidOrder[k] = kind
        later == {k \in (pos + 1)..Len(WallKidOrder) : n(WallKidOrder[k]) > 0}
    IN  IF kind # "" /\ i <= n(kind) THEN <<kind, i>>
        ELSE IF later = {} THEN <<"leaveWall", 0>>
        ELSE <<WallKidOrder[CHOOSE k \in later : \A j \in later : k <= j], 1>>

ProcessObstacles ==
    /\ pc = "obstacles"
    /\ trace' = Append(trace, Ev("enterWalls", <<fi>>, floor.walls, "pass", floor.walls))
    /\ pc' = WallLoop(1)[1] /\ wi' = WallLoop(1)[2]
    /\ UNCHANGED <<doc, entry, listener, map, earthReg, floor, wall, fi, ki,
                   result, err, obsLeft>>

\* mutant: the result of enterWall is ignored
EnterWallOk_Ignored(c) == TRUE
\* if (this->listener->enterWall(wall)) { floor.walls.push_back(wall); ...
EnterWallOk(c) == c # "veto"

ProcessWall ==
    /\ pc = "processWall"
    /\ IF WallThrows(xWall) THEN Throw("std::invalid_argument", <<>>, 0)
       ELSE \E c \in Choices(obsLeft, TRUE, TRUE) :
            LET w == NewWall(xWall, floor)
                out == After(c, TouchElement(w), w)
            IN  /\ trace' = Append(trace, Ev("enterWall", <<fi, wi>>, w, c, out))
                /\ obsLeft' = obsLeft - Cost(c)
                /\ IF EnterWallOk(c)
                   THEN /\ floor' = [floor EXCEPT !.walls = Append(@, out)]
                        /\ wall' = out
                        /\ pc' = KidLoop("", 1)[1] /\ ki' = KidLoop("", 1)[2] /\ wi' = wi
                   ELSE /\ floor' = floor
                        /\ wall' = NoWall
                        /\ pc' = WallLoop(wi + 1)[1] /\ wi' = WallLoop(wi + 1)[2] /\ ki' = 0
                /\ UNCHANGED <<doc, entry, listener, map, earthReg, fi, result, err>>

\* mutant: the result of enterWallDoor is ignored
EnterWallDoorOk_Ignored(c) == TRUE
\* if (this->listener->enterWallDoor(door))
EnterWallDoorOk(c) == c # "veto"

ProcessWallDoor ==
    /\ pc = "door"
    /\ IF DoorThrows(xDoorList[ki]) THEN Throw("std::invalid_argument", <<>>, 0)
       ELSE \E c1 \in Choices(obsLeft, TRUE, TRUE) :
            \E c2 \in Choices(obsLeft - Cost(c1), FALSE, EnterWallDoorOk(c1)) :
            LET door == WallDoorOf(xDoorList[ki])
                d1 == After(c1, TouchElement(door), door)
                d2 == After(c2, TouchElement(d1), d1)
                e1 == Ev("enterWallDoor", <<fi, wi, ki>>, door, c1, d1)
            IN  /\ IF EnterWallDoorOk(c1)
                   THEN /\ wall' = [wall EXCEPT !.doors = Append(@, d1)]
                        /\ trace' = trace \o <<e1, Ev("leaveWallDoor", <<fi, wi, ki>>, d1, c2, d2)>>
                   ELSE /\ wall' = wall
                        /\ trace' = Append(trace, e1)
                /\ obsLeft' = obsLeft - Cost(c1) - Cost(c2)
                /\ pc' = KidLoop("door", ki + 1)[1] /\ ki' = KidLoop("door", ki + 1)[2]
                /\ UNCHANGED <<doc, entry, listener, map, earthReg, floor, fi, wi, result, err>>

\* if (this->listener->enterWallWindow(window))
EnterWallWindowOk(c) == c # "veto"

ProcessWallWindow ==
    /\ pc = "window"
    /\ IF WindowThrows(xWindowList[ki]) THEN Throw("std::invalid_argument", <<>>, 0)
       ELSE \E c1 \in Choices(obsLeft, TRUE, TRUE) :
            \E c2 \in Choices(obsLeft - Cost(c1), FALSE, EnterWallWindowOk(c1)) :
            LET window == WallWindowOf(xWindowList[ki])
                w1 == After(c1, TouchElement(window), window)
                w2 == After(c2, TouchElement(w1), w1)
                e1 == Ev("enterWallWindow", <<fi, wi, ki>>, window, c1, w1)
            IN  /\ IF EnterWallWindowOk(c1)
                   THEN /\ wall' = [wall EXCEPT !.windows = Append(@, w1)]
                        /\ trace' = trace \o <<e1, Ev("leaveWallWindow", <<fi, wi, ki>>, w1, c2, w2)>>
                   ELSE /\ wall' = wall
                        /\ trace' = Append(trace, e1)
                /\ obsLeft' = obsLeft - Cost(c1) - Cost(c2)
                /\ pc' = KidLoop("window", ki + 1)[1] /\ ki' = KidLoop("window", ki + 1)[2]
                /\ UNCHANGED <<doc, entry, listener, map, earthReg, floor, fi, wi, result, err>>

\* generateWallSegments(wall); leaveWall(wall); the lambda returns
LeaveWall ==
    /\ pc = "leaveWall"
    /\ \E sorted \in std_sort(OpeningSegments(wall)) :
       \E c \in Choices(obsLeft, FALSE, TRUE) :
        LET w == generateWallSegments(wall, sorted)
            out == After(c, TouchElement(w), w)
        IN  /\ trace' = Append(trace, Ev("leaveWall", <<fi, wi>>, w, c, out))
            /\ obsLeft' = obsLeft - Cost(c)
            /\ wall' = NoWall
            /\ pc' = WallLoop(wi + 1)[1] /\ wi' = WallLoop(wi + 1)[2] /\ ki' = 0
            /\ UNCHANGED <<doc, entry, listener, map, earthReg, floor, fi, result, err>>

LeaveWalls ==
    /\ pc = "leaveWalls"
    /\ trace' = Append(trace, Ev("leaveWalls", <<fi>>, floor.walls, "pass", floor.walls))
    /\ pc' = NextSection(xFloor, "obstacles")
    /\ UNCHANGED <<doc, entry, listener, map, earthReg, floor, wall, fi, wi, ki,
                   result, err, obsLeft>>

----------------------------------------------------------------------------

Next ==
    \/ ReadFromFile \/ ReadMapFromFile \/ ReadFromFileAgain
    \/ ProcessMap \/ ProcessEarthRegistration \/ ProcessEarthPosMapPos
    \/ LeaveEarthRegistration \/ LeaveMap
    \/ ProcessFloor \/ LeaveFloor
    \/ ProcessOutline
    \/ ProcessObstacles \/ ProcessWall \/ ProcessWallDoor \/ ProcessWallWindow
    \/ LeaveWall \/ LeaveWalls
    \/ ProcessPointOfInterests \/ ProcessGroundtruthPoints \/ ProcessAccessPoints
    \/ ProcessBeacons \/ ProcessFingerprints

Spec == Init /\ [][Next]_vars

\* the same walk, for the claims about the order and nesting of the hook calls
WalkSpec == Init /\ [][Next]_vars

----------------------------------------------------------------------------
(* generateWallSegments on its own: a Wall is built and segmented, then the
   same wall with its two endpoints exchanged is segmented *)

MaxSegDoors == 1     \* doors of a wall that is segmented
MaxSegWindows == 1   \* windows of a wall that is segmented

\* endpoints on a grid with horizontal, vertical and 3-4-5 diagonal walls
SegXs == {0, 400}
SegYs == {0, 300}
SegDoors ==
    {[type |-> 0, material |-> 0, atLinePos |-> pos, width |-> 100, height |-> 200,
      leftRight |-> lr, inOut |-> FALSE] : pos \in {0, 50}, lr \in BOOLEAN}
SegWindows ==
    {[material |-> 0, atLinePos |-> pw[1], atHeigth |-> 100, width |-> pw[2], height |-> 100,
      inOut |-> FALSE] : pw \in {<<25, 100>>, <<75, 100>>, <<75, 200>>}}
SegWallsAll ==
    {[NoWall EXCEPT !.x1 = x1, !.y1 = y1, !.x2 = x2, !.y2 = y2,
                    !.doors = ds, !.windows = ws] :
        x1 \in SegXs, y1 \in SegYs, x2 \in SegXs, y2 \in SegYs,
        ds \in UpToSeqs(SegDoors, MaxSegDoors), ws \in UpToSeqs(SegWindows, MaxSegWindows)}
\* a wall without length is given no openings: normalized() divides by zero
SegWalls ==
    {w \in SegWallsAll :
        /\ (w.x1 = w.x2 /\ w.y1 = w.y2) => (Len(w.doors) + Len(w.windows) = 0)
        \* the vertical walls are those on the line x = 0
        /\ (w.x1 = w.x2) => (w.x1 = 0)}

\* walls of every direction with two doors, and with two windows or none,
\* listed in the order along the wall and against it
SegDoorAt(pos) ==
    [type |-> 0, material |-> 0, atLinePos |-> pos, width |-> 100, height |-> 200,
     leftRight |-> FALSE, inOut |-> FALSE]
SegWindowAt(pos) ==
    [material |-> 0, atLinePos |-> pos, atHeigth |-> 100, width |-> 100, height |-> 100,
     inOut |-> FALSE]
SegWallsTwo ==
    {[NoWall EXCEPT !.x1 = x1, !.y1 = y1, !.x2 = x2, !.y2 = y2,
                    !.doors = ds, !.windows = ws] :
        x1 \in SegXs, y1 \in SegYs, x2 \in SegXs, y2 \in SegYs,
        ds \in {<<SegDoorAt(0), SegDoorAt(50)>>, <<SegDoorAt(50), SegDoorAt(0)>>},
        ws \in {<<>>, <<SegWindowAt(25), SegWindowAt(75)>>,
                      <<SegWindowAt(75), SegWindowAt(25)>>}}

SegInit ==
    /\ doc = [file |-> "missing", root |-> NullNode]
    /\ entry = [method |-> "generateWallSegments", arg |-> "", call |-> 0, prev |-> <<>>]
    /\ listener = "null"
    /\ pc = "generateWallSegments"
    /\ map = NoMap
    /\ earthReg = EmptyEarthRegistration
    /\ floor = NoFloor
    /\ wall \in SegWalls \cup {w \in SegWallsTwo : (w.x1 = w.x2) => (w.x1 = 0 /\ w.y1 # w.y2)}
    /\ fi = 0 /\ wi = 0 /\ ki = 0
    /\ trace = <<>>
    /\ result = <<>>
    /\ err = ""
    /\ obsLeft = 0

\* the wall with x1,y1,x2,y2 replaced by x2,y2,x1,y1
SwappedWall(w) == [w EXCEPT !.x1 = w.x2, !.y1 = w.y2, !.x2 = w.x1, !.y2 = w.y1]

\* generateWallSegments(wall)
GenerateWallSegments ==
    /\ pc = "generateWallSegments"
    /\ \E sorted \in std_sort(OpeningSegments(wall)) :
            wall' = generateWallSegments(wall, sorted)
    /\ pc' = "generateSwapped"
    /\ UNCHANGED <<doc, entry, listener, map, earthReg, floor, fi, wi, ki,
                   trace, result, err, obsLeft>>

\* generateWallSegments on the same wall with its endpoints exchanged; the
\* segmented wall is kept in floor.walls
GenerateSwapped ==
    /\ pc = "generateSwapped"
    /\ LET sw == SwappedWall([wall EXCEPT !.segments = <<>>])
       IN  \E sorted \in std_sort(OpeningSegments(sw)) :
            floor' = [floor EXCEPT !.walls = <<generateWallSegments(sw, sorted)>>]
    /\ pc' = "generated"
    /\ UNCHANGED <<doc, entry, listener, map, earthReg, wall, fi, wi, ki,
                   trace, result, err, obsLeft>>

SegNext == GenerateWallSegments \/ GenerateSwapped

SegSpec == SegInit /\ [][SegNext]_vars

----------------------------------------------------------------------------
(* Floor::gtPointById on its own: a Floor with ground-truth points is asked
   for an id *)

MaxGtPoints == 3     \* ground-truth points of the floor that is searched

\* mutant: the last point with the id is found
find_if_Last(gts, id) ==
    IF \E i \in 1..Len(gts) : gts[i].id = id
    THEN CHOOSE i \in 1..Len(gts) :
            gts[i].id = id /\ \A j \in (i + 1)..Len(gts) : gts[j].id # id
    ELSE Len(gts) + 1
\* std::find_if(begin, end, gt.id == id): the place of the first point with
\* the id, the place after the last point (end) when there is none
find_if(gts, id) ==
    IF \E i \in 1..Len(gts) : gts[i].id = id
    THEN CHOOSE i \in 1..Len(gts) :
            gts[i].id = id /\ \A j \in 1..(i - 1) : gts[j].id # id
    ELSE Len(gts) + 1

\* the floor has points with ids 0..2, two different points for every id;
\* the ids asked for are 0..3, 3 being the id of no point; result holds one
\* of two values before the call
GtInit ==
    /\ doc = [file |-> "missing", root |-> NullNode]
    /\ \E id \in 0..3 :
        entry = [method |-> "gtPointById", arg |-> id, call |-> 0, prev |-> <<>>]
    /\ listener = "null"
    /\ pc = "gtPointById"
    /\ map = NoMap
    /\ earthReg = EmptyEarthRegistration
    /\ \E gts \in UpToSeqs({[id |-> i, x |-> x, y |-> 0, z |-> 0, heightAboveFloor |-> 0] :
                                i \in 0..2, x \in {100, 200}}, MaxGtPoints) :
        floor = [NoFloor EXCEPT !.groundtruthPoints = gts]
    /\ wall = NoWall
    /\ fi = 0 /\ wi = 0 /\ ki = 0
    /\ trace = <<>>
    /\ \E res \in {[id |-> 9, x |-> 0, y |-> 0, z |-> 0, heightAboveFloor |-> 0],
                   [id |-> 0, x |-> 100, y |-> 0, z |-> 0, heightAboveFloor |-> 0]} :
        result = <<res>>
    /\ err = ""
    /\ obsLeft = 0

\* a call floor.gtPointById(entry.arg, result[1]): result = *it and true
\* when find_if found a point, false otherwise; prev keeps the floor and the
\* result as they were, result[2] is the returned value
GtPointById ==
    /\ pc = "gtPointById"
    /\ LET it == find_if(floor.groundtruthPoints, entry.arg)
       IN  IF it # Len(floor.groundtruthPoints) + 1
           THEN result' = <<floor.groundtruthPoints[it], TRUE>>
           ELSE result' = <<result[1], FALSE>>
    /\ entry' = [entry EXCEPT !.prev = <<[floor |-> floor, result |-> result[1]]>>]
    /\ pc' = "returned"
    /\ UNCHANGED <<doc, listener, map, earthReg, floor, wall, fi, wi, ki, trace, err, obsLeft>>

GtNext == GtPointById

GtSpec == GtInit /\ [][GtNext]_vars

----------------------------------------------------------------------------
(* SvgListener: the listener that draws the map as an SVG document.  Only
   the elements it writes are kept, each with the indentation it is written
   at; attribute values and the text inside <text> are left out. *)

MaxSvgFloors == 2

\* one tag written to a stream: kind is "open" (<g ...>), "close" (</g>) or
\* "empty" (<path .../>)
SvgTag(kind, tag, ind) == [kind |-> kind, tag |-> tag, indent |-> ind]

\* for (x : list) svg << els: n copies of the tags els, one after the other
SvgRepeat(els, n) == [i \in 1..(n * Len(els)) |-> els[((i - 1) % Len(els)) + 1]]

\* std::string(2 * indentLevel, ' '): the number of blanks
indent(l) == 2 * l.indentLevel

\* the floors of the maps that are drawn: each list is empty or has one
\* element; the wall has a door and a window between its wall segments
SvgFloors ==
    LET w == [NoWall EXCEPT !.x2 = 400,
                !.doors = <<SegDoorAt(25)>>, !.windows = <<SegWindowAt(75)>>,
                !.segments = <<WallSegment2D("Wall", -1, Point2D(0, 0), Point2D(50, 0)),
                               WallSegment2D("Door", 0, Point2D(50, 0), Point2D(150, 0)),
                               WallSegment2D("Wall", -1, Point2D(150, 0), Point2D(250, 0)),
                               WallSegment2D("Window", 0, Point2D(250, 0), Point2D(350, 0)),
                               WallSegment2D("Wall", -1, Point2D(350, 0), Point2D(400, 0))>>]
        polygon == [name |-> "", method |-> 0, isOutdoor |-> FALSE,
                    points |-> <<Point2D(0, 0), Point2D(400, 0), Point2D(400, 400)>>]
        gtPt == [id |-> 1, x |-> 100, y |-> 100, z |-> 0, heightAboveFloor |-> 0]
        apPt == [name |-> "ap", macAddress |-> "00:11", x |-> 200, y |-> 100,
                 heightAboveFloor |-> 0, z |-> 0, mdl_txp |-> 0, mdl_exp |-> 0, mdl_waf |-> 0]
        poi == [name |-> "poi", type |-> 0, x |-> 300, y |-> 100]
    IN  {[NoFloor EXCEPT !.name = "f", !.outline = [polygons |-> ps], !.walls = ws,
                         !.pois = po, !.groundtruthPoints = gt, !.accessPoints = ap] :
            ps \in {<<>>, <<polygon>>}, ws \in {<<>>, <<w>>},
            po \in {<<>>, <<poi>>}, gt \in {<<>>, <<gtPt>>},
            ap \in {<<>>, <<apPt>>}}

\* a parse with an SvgListener of a file whose floors have all of outline,
\* obstacles, pois, gtpoints and accesspoints; map is the Map being built,
\* with the floors as they are once read; listener is the SvgListener, its
\* svg empty and its indentLevel 0
SvgInit ==
    /\ doc = [file |-> "missing", root |-> NullNode]
    /\ entry = [method |-> "readFromFile", arg |-> "SvgListener", call |-> 1, prev |-> <<>>]
    /\ listener = [svg |-> <<>>, indentLevel |-> 0]
    /\ pc = "enterMap"
    /\ \E fls \in UpToSeqs(SvgFloors, MaxSvgFloors) : map = [NoMap EXCEPT !.floors = fls]
    /\ earthReg = EmptyEarthRegistration
    /\ floor = NoFloor
    /\ wall = NoWall
    /\ fi = 0 /\ wi = 0 /\ ki = 0
    /\ trace = <<>>
    /\ result = <<>>
    /\ err = ""
    /\ obsLeft = 0

\* enterMap: indentLevel++; the first floor element's enterFloor follows,
\* leaveMap when there is no floor
SvgEnterMap ==
    /\ pc = "enterMap"
    /\ listener' = [listener EXCEPT !.indentLevel = @ + 1]
    /\ trace' = Append(trace, "enterMap")
    /\ pc' = IF map.floors # <<>> THEN "enterFloor" ELSE "leaveMap"
    /\ UNCHANGED <<doc, entry, map, earthReg, floor, wall, fi, wi, ki, result, err, obsLeft>>

\* enterFloor: <g id='floor_...'> at the indentation, then indentLevel++
SvgEnterFloor ==
    /\ pc = "enterFloor"
    /\ fi' = fi + 1
    /\ floor' = map.floors[fi + 1]
    /\ listener' = [listener EXCEPT !.svg = Append(@, SvgTag("open", "g", indent(listener))),
                                    !.indentLevel = @ + 1]
    /\ trace' = Append(trace, "enterFloor")
    /\ pc' = "leaveOutline"
    /\ UNCHANGED <<doc, entry, map, earthReg, wall, wi, ki, result, err, obsLeft>>

\* leaveOutline: one <path .../> for each polygon
SvgLeaveOutline ==
    /\ pc = "leaveOutline"
    /\ listener' = [listener EXCEPT !.svg =
            @ \o SvgRepeat(<<SvgTag("empty", "path", indent(listener))>>,
                           Len(floor.outline.polygons))]
    /\ trace' = Append(trace, "leaveOutline")
    /\ wi' = 0
    /\ pc' = IF floor.walls # <<>> THEN "leaveWall" ELSE "leavePointOfInterests"
    /\ UNCHANGED <<doc, entry, map, earthReg, floor, wall, fi, ki, result, err, obsLeft>>

\* leaveWall: for each segment its <path .../> elements, one for a wall or a
\* window segment, three for a door segment (the opening, the arc, the leaf)
SvgLeaveWall ==
    /\ pc = "leaveWall"
    /\ wi' = wi + 1
    /\ wall' = floor.walls[wi + 1]
    /\ LET segs == floor.walls[wi + 1].segments
           paths[n \in 0..Len(segs)] ==
               IF n = 0 THEN <<>>
               ELSE paths[n - 1] \o SvgRepeat(<<SvgTag("empty", "path", indent(listener))>>,
                                              IF segs[n].type = "Door" THEN 3 ELSE 1)
       IN  listener' = [listener EXCEPT !.svg = @ \o paths[Len(segs)]]
    /\ trace' = Append(trace, "leaveWall")
    /\ pc' = IF wi + 1 < Len(floor.walls) THEN "leaveWall" ELSE "leavePointOfInterests"
    /\ UNCHANGED <<doc, entry, map, earthReg, floor, fi, ki, result, err, obsLeft>>

\* leavePointOfInterests: <text ...>name</text> for each point of interest
SvgLeavePointOfInterests ==
    /\ pc = "leavePointOfInterests"
    /\ listener' = [listener EXCEPT !.svg =
            @ \o SvgRepeat(<<SvgTag("open", "text", indent(listener)),
                             SvgTag("close", "text", 0)>>, Len(floor.pois))]
    /\ trace' = Append(trace, "leavePointOfInterests")
    /\ pc' = "leaveGrundtruthPoints"
    /\ UNCHANGED <<doc, entry, map, earthReg, floor, wall, fi, wi, ki, result, err, obsLeft>>

\* leaveGrundtruthPoints: <circle .../> and <text ...>id</text> for each point
SvgLeaveGrundtruthPoints ==
    /\ pc = "leaveGrundtruthPoints"
    /\ listener' = [listener EXCEPT !.svg =
            @ \o SvgRepeat(<<SvgTag("empty", "circle", indent(listener)),
                             SvgTag("open", "text", indent(listener)),
                             SvgTag("close", "text", 0)>>, Len(floor.groundtruthPoints))]
    /\ trace' = Append(trace, "leaveGrundtruthPoints")
    /\ pc' = "leaveAccessPoints"
    /\ UNCHANGED <<doc, entry, map, earthReg, floor, wall, fi, wi, ki, result, err, obsLeft>>

\* leaveAccessPoints: <circle .../> and <text ...>name (mac)</text> for each
\* access point
SvgLeaveAccessPoints ==
    /\ pc = "leaveAccessPoints"
    /\ listener' = [listener EXCEPT !.svg =
            @ \o SvgRepeat(<<SvgTag("empty", "circle", indent(listener)),
                             SvgTag("open", "text", indent(listener)),
                             SvgTag("close", "text", 0)>>, Len(floor.accessPoints))]
    /\ trace' = Append(trace, "leaveAccessPoints")
    /\ pc' = "leaveFloor"
    /\ UNCHANGED <<doc, entry, map, earthReg, floor, wall, fi, wi, ki, result, err, obsLeft>>

\* leaveFloor: indentLevel--, then </g> at the new indentation; the next
\* floor element's enterFloor follows, leaveMap after the last floor
SvgLeaveFloor ==
    /\ pc = "leaveFloor"
    /\ LET l == [listener EXCEPT !.indentLevel = @ - 1]
       IN  listener' = [l EXCEPT !.svg = Append(@, SvgTag("close", "g", indent(l)))]
    /\ trace' = Append(trace, "leaveFloor")
    /\ pc' = IF fi < Len(map.floors) THEN "enterFloor" ELSE "leaveMap"
    /\ UNCHANGED <<doc, entry, map, earthReg, floor, wall, fi, wi, ki, result, err, obsLeft>>

\* leaveMap: indentLevel--, then </svg>, written to svg without indentation
SvgLeaveMap ==
    /\ pc = "leaveMap"
    /\ listener' = [listener EXCEPT !.indentLevel = @ - 1,
                                    !.svg = Append(@, SvgTag("close", "svg", 0))]
    /\ trace' = Append(trace, "leaveMap")
    /\ pc' = "svgString"
    /\ UNCHANGED <<doc, entry, map, earthReg, floor, wall, fi, wi, ki, result, err, obsLeft>>

\* svgString(), asked for once the parse has returned: <svg ...>,
\* <g transform=...>, the content of svg, </g>
SvgString ==
    /\ pc = "svgString"
    /\ result' = << <<SvgTag("open", "svg", 0), SvgTag("open", "g", 0)>>
                    \o listener.svg \o <<SvgTag("close", "g", 0)>> >>
    /\ pc' = "done"
    /\ UNCHANGED <<doc, entry, listener, map, earthReg, floor, wall, fi, wi, ki,
                   trace, err, obsLeft>>

SvgNext ==
    \/ SvgEnterMap \/ SvgEnterFloor \/ SvgLeaveOutline \/ SvgLeaveWall
    \/ SvgLeavePointOfInterests \/ SvgLeaveGrundtruthPoints \/ SvgLeaveAccessPoints
    \/ SvgLeaveFloor \/ SvgLeaveMap \/ SvgString

SvgSpec == SvgInit /\ [][SvgNext]_vars


----------------------------------------------------------------------------
(* Reading the history of hook calls *)

Calls(h) == SelectSeq(trace, LAMBDA e : e.hook = h)
Called(h) == \E i \in 1..Len(trace) : trace[i].hook = h
Outs(evs) == [i \in 1..Len(evs) |-> evs[i].out]
Args(evs) == [i \in 1..Len(evs) |-> evs[i].arg]
Under(e, p) == Len(e.path) >= Len(p) /\ SubSeq(e.path, 1, Len(p)) = p

MapHooks == {"enterMap", "leaveMap", "enterEarthRegistration", "leaveEarthRegistration",
             "enterEarthPosMapPos", "leaveEarthPosMapPos"}
EarthHooks == MapHooks \ {"enterMap", "leaveMap"}
WallChildHooks == {"enterWallDoor", "leaveWallDoor", "enterWallWindow", "leaveWallWindow"}

\* the calls of hook h (resp. of the hooks hs) made for floor element f and below
FloorCalls(h, f) == SelectSeq(trace, LAMBDA e : e.hook = h /\ e.path[1] = f)
\* the calls of hook h made for wall element <<f, w>> and below
WallCalls(h, p) == SelectSeq(trace, LAMBDA e : e.hook = h /\ Under(e, p))

\* the floor element whose Floor is the k-th of map.floors
LeftFloor(k) == Calls("leaveFloor")[k].path[1]

XWallsAt(f) == foreachNode(first_node(xFloorList[f], "obstacles"), "wall")

Finished == pc \in {"done", "failed", "crashed"}

----------------------------------------------------------------------------
(* C1: every wall of a floor of the model is fully populated: its doors,
   windows and segments are those of the wall that leaveWall received *)
C1_StoredWallsPopulated ==
    \A k \in 1..Len(map.floors) :
        LET stored == map.floors[k].walls
            left == FloorCalls("leaveWall", LeftFloor(k))
        IN  /\ Len(stored) = Len(left)
            /\ \A j \in 1..Len(stored) :
                /\ stored[j].doors = left[j].arg.doors
                /\ stored[j].windows = left[j].arg.windows
                /\ stored[j].segments = left[j].arg.segments

----------------------------------------------------------------------------
(* C2: the walls of a floor are the wall elements enterWall did not veto, in
   document order; a vetoed wall gets no door, window or leaveWall call; every
   other wall is entered with the values of its own element and left once *)
SameWall(a, b) ==
    /\ a.x1 = b.x1 /\ a.y1 = b.y1 /\ a.x2 = b.x2 /\ a.y2 = b.y2
    /\ a.thickness = b.thickness /\ a.height = b.height
    /\ a.type = b.type /\ a.material = b.material

C2_VetoedWallsOnly ==
    \A k \in 1..Len(map.floors) :
        LET f == LeftFloor(k)
            entered == FloorCalls("enterWall", f)
            kept == SelectSeq(entered, LAMBDA e : e.c # "veto")
            stored == map.floors[k].walls
            fl == FloorCalls("enterFloor", f)[1].out
        IN  /\ Len(entered) = Len(XWallsAt(f))
            /\ Len(stored) = Len(kept)
            /\ \A j \in 1..Len(kept) : SameWall(stored[j], kept[j].out)
            /\ \A j \in 1..Len(entered) :
                /\ entered[j].path = <<f, j>>
                /\ entered[j].arg = NewWall(XWallsAt(f)[j], fl)
                /\ Len(WallCalls("leaveWall", <<f, j>>)) = IF entered[j].c = "veto" THEN 0 ELSE 1
                /\ entered[j].c = "veto" =>
                      \A h \in WallChildHooks : WallCalls(h, <<f, j>>) = <<>>

\* a floor is stored with two wall elements of which enterWall vetoed the first
C2_Witness ==
    /\ pc = "done" /\ Len(map.floors) = 1
    /\ Len(FloorCalls("enterWall", 1)) = 2
    /\ FloorCalls("enterWall", 1)[1].c = "veto"
    /\ FloorCalls("enterWall", 1)[2].c = "pass"
    /\ Len(map.floors[1].walls) = 1
    /\ WallCalls("leaveWallDoor", <<1, 2>>) # <<>>


----------------------------------------------------------------------------
(* C3: a floor that enterFloor vetoes is not appended to map.floors, no hook
   is called for it or for anything below it, and the walk goes on with the
   next floor element, or with leaveMap after the last one *)
C3_VetoedFloorSkipped ==
    /\ map.floors = Outs(Calls("leaveFloor"))
    /\ pc = "done" => trace[Len(trace)].hook = "leaveMap"
    /\ \A i \in 1..Len(trace) :
        (trace[i].hook = "enterFloor" /\ trace[i].c = "veto") =>
            LET f == trace[i].path[1]
            IN  /\ \A j \in 1..Len(trace) :
                    (j # i /\ trace[j].hook \notin MapHooks) => trace[j].path[1] # f
                /\ IF i < Len(trace)
                   THEN \/ trace[i + 1].hook = "enterFloor" /\ trace[i + 1].path = <<f + 1>>
                        \/ trace[i + 1].hook = "leaveMap" /\ f = Len(xFloorList)
                   ELSE /\ pc \in {"processFloor", "leaveMap", "failed"}
                        /\ pc = "processFloor" => fi = f + 1
                        /\ pc = "leaveMap" => f = Len(xFloorList)
                        /\ pc # "failed" => ENABLED (ProcessFloor \/ LeaveMap)

\* the parse ended after enterFloor vetoed a floor element that has children
\* and admitted the floor element after it
C3_Witness ==
    /\ pc = "done"
    /\ \E i \in 1..Len(trace) :
        /\ trace[i].hook = "enterFloor" /\ trace[i].c = "veto"
        /\ xFloorList[trace[i].path[1]].kids # <<>>
        /\ i + 1 < Len(trace) /\ trace[i + 1].hook = "enterFloor" /\ trace[i + 1].c # "veto"
    /\ Len(map.floors) = 1

----------------------------------------------------------------------------
(* C4: a door (window) that enterWallDoor (enterWallWindow) vetoes is not in
   the wall's doors (windows), gets no leave call and no segment; the other
   doors and windows of the wall are entered, left, stored and segmented *)
OpeningsOf(w, type) == SelectSeq(w.segments, LAMBDA sg : sg.type = type)

C4_VetoedOpeningSkipped ==
    \A n \in 1..Len(trace) :
        trace[n].hook = "leaveWall" =>
            LET p == trace[n].path
                w == trace[n].arg
                xw == XWallsAt(p[1])[p[2]]
                ed == WallCalls("enterWallDoor", p)
                ew == WallCalls("enterWallWindow", p)
                keptd == SelectSeq(ed, LAMBDA e : e.c # "veto")
                keptw == SelectSeq(ew, LAMBDA e : e.c # "veto")
                ld == WallCalls("leaveWallDoor", p)
                lw == WallCalls("leaveWallWindow", p)
                sd == OpeningsOf(w, "Door")
                sw == OpeningsOf(w, "Window")
            IN  /\ [k \in 1..Len(ed) |-> ed[k].path[3]] = [k \in 1..Len(foreachNode(xw, "door")) |-> k]
                /\ [k \in 1..Len(ew) |-> ew[k].path[3]] = [k \in 1..Len(foreachNode(xw, "window")) |-> k]
                /\ w.doors = Outs(keptd)
                /\ w.windows = Outs(keptw)
                /\ [k \in 1..Len(ld) |-> ld[k].path] = [k \in 1..Len(keptd) |-> keptd[k].path]
                /\ [k \in 1..Len(lw) |-> lw[k].path] = [k \in 1..Len(keptw) |-> keptw[k].path]
                /\ Len(sd) = Len(w.doors) /\ Len(sw) = Len(w.windows)
                /\ \A k \in 1..Len(w.doors) :
                        \E m \in 1..Len(sd) : sd[m] = DoorSegment(w, k)
                /\ \A k \in 1..Len(w.windows) :
                        \E m \in 1..Len(sw) : sw[m] = WindowSegment(w, k)

\* leaveWall was called for a wall with two openings of which one was vetoed:
\* the other one is stored and lies between two fillers
C4_Witness ==
    \E n \in 1..Len(trace) :
        /\ trace[n].hook = "leaveWall"
        /\ LET p == trace[n].path
               es == WallCalls("enterWallDoor", p) \o WallCalls("enterWallWindow", p)
           IN  /\ Len(es) = 2
               /\ Len(SelectSeq(es, LAMBDA e : e.c = "veto")) = 1
               /\ Len(trace[n].arg.doors) + Len(trace[n].arg.windows) = 1
               /\ Len(trace[n].arg.segments) = 3

----------------------------------------------------------------------------
(* C5: for every kind with a leave hook, the entity as the leave hook left it
   is what the parent holds: the map, its earth registration and the
   correspondences of that, the floors, their outline, walls and collections,
   the doors and the windows of a wall *)
CollectionHooks ==
    {<<"leavePointOfInterests", "pois">>, <<"leaveGrundtruthPoints", "groundtruthPoints">>,
     <<"leaveAccessPoints", "accessPoints">>, <<"leaveBeacons", "beacons">>,
     <<"leaveFingerprintLocations", "fingerprintLocations">>}

C5_LeaveChangesKept ==
    /\ pc = "done" => map = Calls("leaveMap")[1].out
    /\ Called("leaveEarthRegistration") =>
        /\ map.earthRegistration = Calls("leaveEarthRegistration")[1].out
        /\ Calls("leaveEarthRegistration")[1].arg.correspondences
              = Outs(Calls("leaveEarthPosMapPos"))
    /\ map.floors = Outs(Calls("leaveFloor"))
    /\ \A n \in 1..Len(trace) :
        /\ trace[n].hook = "leaveFloor" =>
            LET f == trace[n].path[1]
                fl == trace[n].arg
                left == FloorCalls("leaveWall", f)
            IN  /\ FloorCalls("leaveOutline", f) # <<>> =>
                        fl.outline = FloorCalls("leaveOutline", f)[1].out
                /\ \A hf \in CollectionHooks :
                        FloorCalls(hf[1], f) # <<>> => fl[hf[2]] = FloorCalls(hf[1], f)[1].out
                /\ Len(fl.walls) = Len(left)
                /\ \A j \in 1..Len(left) : fl.walls[j].material = left[j].out.material
        /\ trace[n].hook = "leaveWall" =>
            /\ trace[n].arg.doors = Outs(WallCalls("leaveWallDoor", trace[n].path))
            /\ trace[n].arg.windows = Outs(WallCalls("leaveWallWindow", trace[n].path))

----------------------------------------------------------------------------
(* C6: a parse that is given no listener and a parse of the same file that is
   given a default IndoorListener end the same way, with the same map *)
C6_NullEqualsDefault ==
    (entry.call = 2 /\ entry.prev[1].method = "readFromFile" /\ Finished) =>
        /\ entry.prev[1].pc = pc
        /\ entry.prev[1].err = err
        /\ pc = "done" => entry.prev[1].map = map

\* both parses of a file with a wall that has a door or a window ended
C6_Witness ==
    /\ entry.call = 2 /\ pc = "done"
    /\ entry.prev[1].method = "readFromFile"
    /\ entry.prev[1].pc = "done"
    /\ \E n \in 1..Len(trace) : trace[n].hook = "leaveWall" /\ Len(trace[n].arg.segments) > 1


----------------------------------------------------------------------------
(* C7: the hook calls of a floor come in the order enterFloor, outline,
   walls, points of interest, ground-truth points, access points, beacons,
   fingerprint locations, leaveFloor, whatever the order of the child
   elements; every section element of a floor that was left had its hooks *)
SectionRank(h) ==
    CASE h = "enterFloor" -> 0
      [] h \in {"enterOutline", "leaveOutline"} -> 1
      [] h \in {"enterWalls", "leaveWalls", "enterWall", "leaveWall"} \cup WallChildHooks -> 2
      [] h \in {"enterPointOfInterests", "leavePointOfInterests"} -> 3
      [] h \in {"enterGrundtruthPoints", "leaveGrundtruthPoints"} -> 4
      [] h \in {"enterAccessPoints", "leaveAccessPoints"} -> 5
      [] h \in {"enterBeacons", "leaveBeacons"} -> 6
      [] h \in {"enterFingerprintLocations", "leaveFingerprintLocations"} -> 7
      [] h = "leaveFloor" -> 8

\* element name of a section, its enter hook, its leave hook
SectionHooks ==
    {<<"outline", "enterOutline", "leaveOutline">>,
     <<"obstacles", "enterWalls", "leaveWalls">>,
     <<"pois", "enterPointOfInterests", "leavePointOfInterests">>,
     <<"gtpoints", "enterGrundtruthPoints", "leaveGrundtruthPoints">>,
     <<"accesspoints", "enterAccessPoints", "leaveAccessPoints">>,
     <<"beacons", "enterBeacons", "leaveBeacons">>,
     <<"fingerprints", "enterFingerprintLocations", "leaveFingerprintLocations">>}

C7_SectionOrder ==
    /\ LET below == SelectSeq(trace, LAMBDA e : e.hook \notin MapHooks)
       IN  \A i \in 1..(Len(below) - 1) :
            \* the calls of one floor are not interleaved with those of another,
            \* and within a floor the rank never goes down
            /\ below[i].path[1] <= below[i + 1].path[1]
            /\ below[i].path[1] = below[i + 1].path[1]
                  => SectionRank(below[i].hook) <= SectionRank(below[i + 1].hook)
    /\ \A n \in 1..Len(trace) :
        trace[n].hook = "leaveFloor" =>
            \A sh \in SectionHooks :
                has_node(xFloorList[trace[n].path[1]], sh[1]) =>
                    Len(FloorCalls(sh[2], trace[n].path[1])) = 1

\* a floor whose seven sections stand in the reverse order in the document
\* was left, with all seven entered
C7_Witness ==
    /\ pc = "done"
    /\ Len(xFloorList) = 1
    /\ Len(xFloorList[1].kids) = 7
    /\ xFloorList[1].kids[1].name = "fingerprints"
    /\ xFloorList[1].kids[7].name = "outline"
    /\ \A sh \in SectionHooks : Len(FloorCalls(sh[2], 1)) = 1

----------------------------------------------------------------------------
(* C8: enterMap is the first hook call and there is one; the hooks of the
   earth registration come before the first enterFloor; a parse that ends
   without failure ends with the one leaveMap call, whose map holds the earth
   registration (its hooks were called if the element is there) and the
   floors that were not vetoed *)
C8_MapOrder ==
    /\ trace # <<>> => trace[1].hook = "enterMap"
    /\ Len(Calls("enterMap")) <= 1
    /\ \A i, j \in 1..Len(trace) :
        (trace[i].hook \in EarthHooks /\ trace[j].hook = "enterFloor") => i < j
    /\ pc = "done" =>
        LET last == trace[Len(trace)]
        IN  /\ last.hook = "leaveMap"
            /\ Len(Calls("leaveMap")) = 1
            /\ Len(Calls("enterMap")) = 1
            /\ Len(Calls("enterEarthRegistration")) = IF has_node(xMap, "earthReg") THEN 1 ELSE 0
            /\ Len(Calls("leaveEarthRegistration")) = IF has_node(xMap, "earthReg") THEN 1 ELSE 0
            /\ Len(Calls("enterEarthPosMapPos")) = Len(xPointList)
            /\ has_node(xMap, "earthReg") =>
                    last.arg.earthRegistration = Calls("leaveEarthRegistration")[1].out
            /\ last.arg.floors = Outs(Calls("leaveFloor"))
            /\ Len(last.arg.floors)
                 = Len(SelectSeq(Calls("enterFloor"), LAMBDA e : e.c # "veto"))
            /\ Len(Calls("enterFloor")) = Len(xFloorList)

\* a parse of a map with correspondences and a floor ended
C8_Witness ==
    /\ pc = "done"
    /\ Len(Calls("leaveEarthPosMapPos")) = 2
    /\ Len(map.earthRegistration.correspondences) = 2
    /\ Len(map.floors) = 1

----------------------------------------------------------------------------
(* C9: between enterWall and leaveWall of a wall come the calls for all its
   doors in document order, then those for all its windows in document order,
   each leave call right after its enter call; the segments are empty at
   enterWall and are one segmentation of the wall at leaveWall *)
IsDoorHook(h) == h \in {"enterWallDoor", "leaveWallDoor"}
IsWindowHook(h) == h \in {"enterWallWindow", "leaveWallWindow"}
LeaveOf(h) == IF h = "enterWallDoor" THEN "leaveWallDoor" ELSE "leaveWallWindow"

C9_WallOrder ==
    \A n \in 1..Len(trace) :
        trace[n].hook = "leaveWall" =>
            LET p == trace[n].path
                xw == XWallsAt(p[1])[p[2]]
                i == CHOOSE k \in 1..n : trace[k].hook = "enterWall" /\ trace[k].path = p
                mid == SubSeq(trace, i + 1, n - 1)
                w0 == [trace[n].arg EXCEPT !.segments = <<>>]
            IN  /\ \E k \in 1..n : trace[k].hook = "enterWall" /\ trace[k].path = p
                /\ Len(WallCalls("enterWall", p)) = 1 /\ Len(WallCalls("leaveWall", p)) = 1
                /\ \A a \in 1..Len(mid) : mid[a].hook \in WallChildHooks /\ Under(mid[a], p)
                /\ \A a, b \in 1..Len(mid) :
                        (IsWindowHook(mid[a].hook) /\ IsDoorHook(mid[b].hook)) => b < a
                /\ LET ds == SelectSeq(mid, LAMBDA e : e.hook = "enterWallDoor")
                       ws == SelectSeq(mid, LAMBDA e : e.hook = "enterWallWindow")
                   IN  /\ [k \in 1..Len(ds) |-> ds[k].path[3]]
                            = [k \in 1..Len(foreachNode(xw, "door")) |-> k]
                       /\ [k \in 1..Len(ws) |-> ws[k].path[3]]
                            = [k \in 1..Len(foreachNode(xw, "window")) |-> k]
                /\ \A a \in 1..Len(mid) :
                        /\ (mid[a].hook \in {"enterWallDoor", "enterWallWindow"} /\ mid[a].c # "veto")
                              => /\ a < Len(mid)
                                 /\ mid[a + 1].hook = LeaveOf(mid[a].hook)
                                 /\ mid[a + 1].path = mid[a].path
                        /\ mid[a].hook \in {"leaveWallDoor", "leaveWallWindow"}
                              => /\ a > 1
                                 /\ LeaveOf(mid[a - 1].hook) = mid[a].hook
                                 /\ mid[a - 1].hook # mid[a].hook
                                 /\ mid[a - 1].c # "veto"
                /\ trace[i].arg.segments = <<>>
                /\ trace[n].arg \in
                        {generateWallSegments(w0, srt) : srt \in std_sort(OpeningSegments(w0))}

\* leaveWall was called for a wall element whose window stands before its door
\* in the document: the door was entered first, both are stored and segmented
C9_Witness ==
    \E n \in 1..Len(trace) :
        /\ trace[n].hook = "leaveWall"
        /\ LET xw == XWallsAt(trace[n].path[1])[trace[n].path[2]]
           IN  /\ Len(xw.kids) = 2
               /\ xw.kids[1].name = "window" /\ xw.kids[2].name = "door"
        /\ n > 4
        /\ trace[n - 4].hook = "enterWallDoor" /\ trace[n - 2].hook = "enterWallWindow"
        /\ Len(trace[n].arg.segments) = 5

----------------------------------------------------------------------------
(* C10: for a section element missing from a floor element, and for a map
   element without earthReg, no hook of the section is called, the sequence
   in the model stays empty, and the parse does not fail for it *)
SectionEmpty(fl, name) ==
    CASE name = "outline" -> fl.outline.polygons = <<>>
      [] name = "obstacles" -> fl.walls = <<>>
      [] name = "pois" -> fl.pois = <<>>
      [] name = "gtpoints" -> fl.groundtruthPoints = <<>>
      [] name = "accesspoints" -> fl.accessPoints = <<>>
      [] name = "beacons" -> fl.beacons = <<>>
      [] name = "fingerprints" -> fl.fingerprintLocations = <<>>

C10_MissingSectionsElided ==
    /\ \A n \in 1..Len(trace) :
        LET f == trace[n].path[1]
        IN  /\ trace[n].hook = "enterFloor" =>
                \A sh \in SectionHooks :
                    ~has_node(xFloorList[f], sh[1]) =>
                        /\ FloorCalls(sh[2], f) = <<>> /\ FloorCalls(sh[3], f) = <<>>
                        /\ sh[1] = "obstacles" => FloorCalls("enterWall", f) = <<>>
            /\ trace[n].hook = "leaveFloor" =>
                \A sh \in SectionHooks :
                    ~has_node(xFloorList[f], sh[1]) =>
                        /\ SectionEmpty(trace[n].arg, sh[1])
                        /\ pc = "done" =>
                            \E k \in 1..Len(map.floors) :
                                LeftFloor(k) = f /\ SectionEmpty(map.floors[k], sh[1])
    /\ (pc # "start" /\ ~has_node(xMap, "earthReg")) =>
        /\ \A n \in 1..Len(trace) : trace[n].hook \notin EarthHooks
        /\ map.earthRegistration.correspondences = <<>>
    /\ pc \in {"failed", "crashed"} => doc \in BadDocs

\* a parse ended for a map without earthReg whose floor has nothing but pois
C10_Witness ==
    /\ pc = "done"
    /\ ~has_node(xMap, "earthReg")
    /\ Len(xFloorList) = 1
    /\ Len(xFloorList[1].kids) = 1
    /\ Called("leavePointOfInterests")
    /\ Len(map.floors) = 1 /\ Len(map.floors[1].pois) = 1
    /\ SectionEmpty(map.floors[1], "outline") /\ SectionEmpty(map.floors[1], "obstacles")

----------------------------------------------------------------------------
(* C11: the wall handed to enterWall has the height of its floor (as
   enterFloor left it) when the height attribute is absent or zero and the
   attribute's value otherwise, and the thickness 0.15 when the thickness
   attribute is absent and the attribute's value, zero included, otherwise *)
C11_WallDefaults ==
    \A n \in 1..Len(trace) :
        trace[n].hook = "enterWall" =>
            LET p == trace[n].path
                xw == XWallsAt(p[1])[p[2]]
                fl == FloorCalls("enterFloor", p[1])[1].out
                w == trace[n].arg
            IN  /\ w.height =
                    IF "height" \notin DOMAIN xw.att THEN fl.height
                    ELSE IF StofTable[xw.att["height"]] = 0 THEN fl.height
                    ELSE StofTable[xw.att["height"]]
                /\ w.thickness =
                    IF "thickness" \notin DOMAIN xw.att THEN DefaultThickness
                    ELSE StofTable[xw.att["thickness"]]

\* enterWall was called for a wall element with height="0" thickness="0" on a
\* floor of height 3 that enterFloor raised to 4: height 4, thickness 0
C11_Witness ==
    \E n \in 1..Len(trace) :
        /\ trace[n].hook = "enterWall"
        /\ XWallsAt(trace[n].path[1])[trace[n].path[2]].att = WallAttC
        /\ FloorCalls("enterFloor", trace[n].path[1])[1].c = "mutate"
        /\ trace[n].arg.height = 400
        /\ trace[n].arg.thickness = 0

----------------------------------------------------------------------------
(* C12: every ground-truth point, access point, beacon and fingerprint
   location has z = floor.atHeight + heightAboveFloor, with heightAboveFloor
   the z attribute of its element (dz for a fingerprint location) and
   floor.atHeight as enterFloor left it; x, y and id are those of the element *)
\* section element, child element, leave hook, field of Floor, height attribute
PositionedSections ==
    {<<"gtpoints", "gtpoint", "leaveGrundtruthPoints", "groundtruthPoints", "z">>,
     <<"accesspoints", "accesspoint", "leaveAccessPoints", "accessPoints", "z">>,
     <<"beacons", "beacon", "leaveBeacons", "beacons", "z">>,
     <<"fingerprints", "location", "leaveFingerprintLocations", "fingerprintLocations", "dz">>}

AttrFloat(x, a) == IF a \in DOMAIN x.att THEN StofTable[x.att[a]] ELSE 0

\* the entity e has the position of the element x on a floor at height atHeight
PositionOf(e, x, zAtt, atHeight) ==
    /\ e.x = AttrFloat(x, "x")
    /\ e.y = AttrFloat(x, "y")
    /\ e.heightAboveFloor = AttrFloat(x, zAtt)
    /\ e.z = atHeight + AttrFloat(x, zAtt)

C12_AbsoluteHeight ==
    \A n \in 1..Len(trace) : \A ps \in PositionedSections :
        LET f == trace[n].path[1]
            xs == foreachNode(first_node(xFloorList[f], ps[1]), ps[2])
            at == FloorCalls("enterFloor", f)[1].out.atHeight
        IN  /\ trace[n].hook = ps[3] =>
                \* what the parser built, and what the hook left
                /\ Len(trace[n].arg) = Len(xs)
                /\ \A i \in 1..Len(xs) :
                    /\ PositionOf(trace[n].arg[i], xs[i], ps[5], at)
                    /\ PositionOf(trace[n].out[i], xs[i], ps[5], at)
                    /\ ps[2] = "gtpoint" =>
                        trace[n].arg[i].id =
                            (IF "id" \in DOMAIN xs[i].att THEN StoiTable[xs[i].att["id"]] ELSE 0)
            /\ (trace[n].hook = "leaveFloor" /\ has_node(xFloorList[f], ps[1])) =>
                \* what is stored in the floor
                /\ Len(trace[n].arg[ps[4]]) = Len(xs)
                /\ \A i \in 1..Len(xs) : PositionOf(trace[n].arg[ps[4]][i], xs[i], ps[5], at)

\* a floor at height 3 that enterFloor moved to 4 holds a ground-truth point
\* with id 3, z="0.5": it is stored at z = 4.5
C12_Witness ==
    /\ pc = "done"
    /\ Len(map.floors) = 1
    /\ Len(map.floors[1].groundtruthPoints) = 1
    /\ FloorCalls("enterFloor", 1)[1].c = "mutate"
    /\ FloorCalls("enterFloor", 1)[1].arg.atHeight = 300
    /\ map.floors[1].groundtruthPoints[1].z = 450
    /\ map.floors[1].groundtruthPoints[1].heightAboveFloor = 50
    /\ map.floors[1].groundtruthPoints[1].id = 3

----------------------------------------------------------------------------
(* Segmentation claims, on SegSpec *)

\* generateWallSegments has run on wall
Segmented == pc \in {"generateSwapped", "generated"}
\* number of openings of the wall
Openings == Len(wall.doors) + Len(wall.windows)
\* the first start and the last end of the segments are the wall's two
\* endpoints, the one with the smaller x first
EndsAscending(w) ==
    \E ab \in {<<WallStart(w), WallEnd(w)>>, <<WallEnd(w), WallStart(w)>>} :
        /\ w.segments[1].start = ab[1]
        /\ w.segments[Len(w.segments)].end = ab[2]
        /\ ab[1].x <= ab[2].x
Continuous(w) ==
    \A i \in 1..(Len(w.segments) - 1) : w.segments[i].end = w.segments[i + 1].start

(* C13: for any wall, whatever its doors and windows, the segments form one
   continuous polyline: each end is the next start, the first start is the
   wall endpoint with the smaller x and the last end the one with the larger x *)
C13_ContinuousPolyline ==
    Segmented =>
        /\ wall.segments # <<>>
        /\ Continuous(wall)
        /\ EndsAscending(wall)

(* C14: a wall with n >= 1 openings gets exactly 2n+1 segments, Wall-type
   fillers at the odd places and the openings, each once, at the even places;
   fillers without length are not left out *)
C14_Alternation ==
    (Segmented /\ Openings >= 1) =>
        LET sg == wall.segments
        IN  /\ Len(sg) = 2 * Openings + 1
            /\ \A j \in 1..Len(sg) :
                IF j % 2 = 1 THEN sg[j].type = "Wall" /\ sg[j].listIndex = -1
                ELSE sg[j].type \in {"Door", "Window"}
            /\ {<<sg[j].type, sg[j].listIndex>> : j \in {k \in 1..Len(sg) : k % 2 = 0}}
                 = {<<"Door", i - 1>> : i \in 1..Len(wall.doors)}
                   \cup {<<"Window", i - 1>> : i \in 1..Len(wall.windows)}

\* a wall with a door and a window that touch each other and the wall's end:
\* five segments, the third and the fifth without length
C14_Witness ==
    /\ Segmented
    /\ Len(wall.doors) = 1 /\ Len(wall.windows) = 1
    /\ Len(wall.segments) = 5
    /\ wall.segments[3].start = wall.segments[3].end
    /\ wall.segments[5].start = wall.segments[5].end
    /\ wall.segments[2].start # wall.segments[2].end

(* C15: a wall without doors and windows gets exactly one segment, of type
   Wall, without back-index, from the wall's start to the wall's end *)
C15_NoOpenings ==
    (Segmented /\ Openings = 0) =>
        wall.segments = <<[type |-> "Wall", listIndex |-> -1,
                           start |-> [x |-> wall.x1, y |-> wall.y1],
                           end |-> [x |-> wall.x2, y |-> wall.y2]]>>

\* a wall without openings that runs towards smaller x was segmented
C15_Witness ==
    /\ Segmented /\ Openings = 0
    /\ wall.x2 < wall.x1 /\ wall.y1 # wall.y2
    /\ Len(wall.segments) = 1

(* C16: a wall with one door at position 0.5 with leftRight = false and no
   window gets three segments, filler, door, filler; the start of the first
   and the end of the third are the wall's endpoints in ascending x *)
C16_OneDoor ==
    (/\ Segmented
     /\ Len(wall.doors) = 1 /\ Len(wall.windows) = 0
     /\ wall.doors[1].atLinePos = 50 /\ ~wall.doors[1].leftRight) =>
        /\ Len(wall.segments) = 3
        /\ wall.segments[1].type = "Wall"
        /\ wall.segments[2].type = "Door" /\ wall.segments[2].listIndex = 0
        /\ wall.segments[3].type = "Wall"
        /\ Continuous(wall)
        /\ EndsAscending(wall)

\* such a wall, running towards smaller x, was segmented
C16_Witness ==
    /\ Segmented
    /\ Len(wall.doors) = 1 /\ Len(wall.windows) = 0
    /\ wall.doors[1].atLinePos = 50 /\ ~wall.doors[1].leftRight
    /\ wall.x2 < wall.x1
    /\ Len(wall.segments) = 3
    /\ wall.segments[1].start = [x |-> wall.x2, y |-> wall.y2]

(* C17: segmenting the wall with its two endpoints exchanged gives the same
   segment sequence as for the wall itself, or that sequence reversed *)
ReversedSegments(sg) ==
    [i \in 1..Len(sg) |->
        [sg[Len(sg) + 1 - i] EXCEPT !.start = sg[Len(sg) + 1 - i].end,
                                    !.end = sg[Len(sg) + 1 - i].start]]
C17_SwapInvariant ==
    pc = "generated" =>
        \/ floor.walls[1].segments = wall.segments
        \/ floor.walls[1].segments = ReversedSegments(wall.segments)

(* C18: when the openings of a wall do not overlap each other and lie inside
   the wall's span, every segment has start.x <= end.x, the start x of the
   segments never goes down, and no two segments overlap along the wall
   line, for every orientation of the wall, a vertical one included *)
\* the coordinate that runs along the wall: y for a vertical wall, else x
Along(p, w) == IF w.x1 = w.x2 THEN p.y ELSE p.x
Lo(sg, w) == IF Along(sg.start, w) < Along(sg.end, w) THEN Along(sg.start, w) ELSE Along(sg.end, w)
Hi(sg, w) == IF Along(sg.start, w) < Along(sg.end, w) THEN Along(sg.end, w) ELSE Along(sg.start, w)
Apart(a, b, w) == Hi(a, w) <= Lo(b, w) \/ Hi(b, w) <= Lo(a, w)
OpeningsApartAndInside(w) ==
    LET os == OpeningSegments([w EXCEPT !.segments = <<>>])
        span == [start |-> WallStart(w), end |-> WallEnd(w)]
    IN  /\ \A i \in 1..Len(os) : Lo(span, w) <= Lo(os[i], w) /\ Hi(os[i], w) <= Hi(span, w)
        /\ \A i, j \in 1..Len(os) : i # j => Apart(os[i], os[j], w)
XOrdered(w) ==
    /\ \A i \in 1..Len(w.segments) : w.segments[i].start.x <= w.segments[i].end.x
    /\ \A i \in 1..(Len(w.segments) - 1) : w.segments[i].start.x <= w.segments[i + 1].start.x
NoOverlap(w) ==
    \A i, j \in 1..Len(w.segments) : i # j => Apart(w.segments[i], w.segments[j], w)
C18_OrderedNoOverlap ==
    (Segmented /\ Openings >= 1 /\ OpeningsApartAndInside(wall)) =>
        /\ XOrdered(wall)
        /\ Continuous(wall)
        /\ NoOverlap(wall)

----------------------------------------------------------------------------
(* C19: a float, int or bool attribute that is present with a text that is
   not a number / boolean makes the parse fail; no value is put in its place *)
\* the texts of the documents that are numbers, integers, booleans
FloatTexts == {"0", "1", "2", "3", "4", "0.25", "0.5", "0.75", "10"}
IntTexts == {"0", "1", "2", "3", "4", "10"}
BoolTexts == {"true", "false"}

Elems(seq) == {seq[i] : i \in 1..Len(seq)}
Kids(nodes, name) == UNION {Elems(foreachNode(n, name)) : n \in nodes}
FirstKids(nodes, name) == {first_node(n, name) : n \in {m \in nodes : has_node(m, name)}}

\* the elements the parse reads attributes of when no hook vetoes, by kind
ReadElements ==
    LET floors == Elems(xFloorList)
        polygons == Kids(FirstKids(floors, "outline"), "polygon")
        walls == Kids(FirstKids(floors, "obstacles"), "wall")
    IN  [map |-> {xMap},
         earthpoint |-> Elems(xPointList),
         floor |-> floors,
         polygon |-> polygons,
         point |-> Kids(polygons, "point"),
         wall |-> walls,
         door |-> Kids(walls, "door"),
         window |-> Kids(walls, "window"),
         poi |-> Kids(FirstKids(floors, "pois"), "poi"),
         gtpoint |-> Kids(FirstKids(floors, "gtpoints"), "gtpoint"),
         accesspoint |-> Kids(FirstKids(floors, "accesspoints"), "accesspoint"),
         beacon |-> Kids(FirstKids(floors, "beacons"), "beacon"),
         location |-> Kids(FirstKids(floors, "fingerprints"), "location")]

\* the attributes read as float, as int and as bool, by kind of element
TypedAttributes ==
    [map |-> <<{"width", "depth"}, {}, {}>>,
     earthpoint |-> <<{"lat", "lon", "alt", "mx", "my", "mz"}, {}, {}>>,
     floor |-> <<{"atHeight", "height"}, {}, {}>>,
     polygon |-> <<{}, {"method"}, {"outdoor"}>>,
     point |-> <<{"x", "y"}, {}, {}>>,
     wall |-> <<{"x1", "y1", "x2", "y2", "height", "thickness"}, {"material", "type"}, {}>>,
     door |-> <<{"x01", "width", "heigth"}, {"type", "material"}, {"lr", "io"}>>,
     window |-> <<{"x01", "y", "width", "height"}, {"material"}, {"io"}>>,
     poi |-> <<{"x", "y"}, {"type"}, {}>>,
     gtpoint |-> <<{"x", "y", "z"}, {"id"}, {}>>,
     accesspoint |-> <<{"x", "y", "z", "mdl_txp", "mdl_exp", "mdl_waf"}, {}, {}>>,
     beacon |-> <<{"x", "y", "z", "mdl_txp", "mdl_exp", "mdl_waf"}, {}, {}>>,
     location |-> <<{"x", "y", "dz"}, {}, {}>>]

WellTyped(n, typed) ==
    /\ \A a \in typed[1] \cap DOMAIN n.att : n.att[a] \in FloatTexts
    /\ \A a \in typed[2] \cap DOMAIN n.att : n.att[a] \in IntTexts
    /\ \A a \in typed[3] \cap DOMAIN n.att : n.att[a] \in BoolTexts

NoVeto == \A n \in 1..Len(trace) : trace[n].c # "veto"

C19_InvalidAttributeFails ==
    (pc = "done" /\ NoVeto) =>
        \A kind \in DOMAIN ReadElements :
            \A n \in ReadElements[kind] : WellTyped(n, TypedAttributes[kind])

----------------------------------------------------------------------------
(* C20: every enumerated field of the resulting model (material of walls,
   doors and windows, door type, obstacle type, POI type, polygon method)
   holds the ordinal of a declared enumerator *)
WallMaterials == 0..6     \* Unknown .. Metalized_Glas
DoorTypes == 0..5         \* Unknown .. Revolving
ObstacleTypes == 0..4     \* Unknown .. Pillar
POITypes == {0}           \* Room
PolygonMethods == 0..1    \* Add, Remove

EnumsDeclared(fl) ==
    /\ \A i \in 1..Len(fl.walls) :
        /\ fl.walls[i].material \in WallMaterials
        /\ fl.walls[i].type \in ObstacleTypes
        /\ \A k \in 1..Len(fl.walls[i].doors) :
            /\ fl.walls[i].doors[k].material \in WallMaterials
            /\ fl.walls[i].doors[k].type \in DoorTypes
        /\ \A k \in 1..Len(fl.walls[i].windows) :
            fl.walls[i].windows[k].material \in WallMaterials
    /\ \A i \in 1..Len(fl.pois) : fl.pois[i].type \in POITypes
    /\ \A i \in 1..Len(fl.outline.polygons) : fl.outline.polygons[i].method \in PolygonMethods

C20_EnumsInRange ==
    (pc = "done" /\ listener # "UserListener") =>
        \A k \in 1..Len(map.floors) : EnumsDeclared(map.floors[k])

----------------------------------------------------------------------------
(* C21: once the decoding of an attribute has failed, no hook is called any
   more (leaveMap in particular never is), the failure leaves readFromFile,
   and readMapFromFile hands back no Map, neither a partial one nor a null
   one *)
\* a step of the walk below readFromFile
WalkStep ==
    \/ ProcessMap \/ ProcessEarthRegistration \/ ProcessEarthPosMapPos
    \/ LeaveEarthRegistration \/ LeaveMap
    \/ ProcessFloor \/ LeaveFloor
    \/ ProcessOutline
    \/ ProcessObstacles \/ ProcessWall \/ ProcessWallDoor \/ ProcessWallWindow
    \/ LeaveWall \/ LeaveWalls
    \/ ProcessPointOfInterests \/ ProcessGroundtruthPoints \/ ProcessAccessPoints
    \/ ProcessBeacons \/ ProcessFingerprints

C21_DecodingFailureIsFatal ==
    err = "std::invalid_argument" =>
        /\ pc = "failed"
        /\ ~ENABLED WalkStep
        /\ ~Called("leaveMap")
        /\ result = <<>>

C21_Witness ==
    /\ pc = "failed" /\ err = "std::invalid_argument"
    /\ entry.method = "readMapFromFile"
    /\ Called("leaveFloor")

----------------------------------------------------------------------------
(* C22: when the file cannot be opened, readFromFile ends with an error that
   carries a readable message, and no hook has been called *)
C22_MissingFileFails ==
    (doc.file = "missing" /\ pc # "start") =>
        /\ pc = "failed"
        /\ err = "runtime_error: Indoor map file not found"
        /\ trace = <<>>
        /\ result = <<>>
        /\ ~ENABLED WalkStep

C22_Witness ==
    /\ doc.file = "missing" /\ pc = "failed"
    /\ entry.method = "readFromFile" /\ entry.arg = "UserListener"

----------------------------------------------------------------------------
(* C23: after a parse that got through, readMapFromFile hands back a Map,
   never null, that is the root Map as it was given to leaveMap; MapListener
   has vetoed nothing and changed nothing, and the Map is the one a parse of
   the same file with a default IndoorListener builds *)
Untouched(e) == e.c = "pass" /\ e.out = e.arg

C23_MapListenerResult ==
    /\ (entry.method = "readMapFromFile" /\ pc = "done") =>
        /\ Len(result) = 1
        /\ trace # <<>>
        /\ trace[Len(trace)].hook = "leaveMap"
        /\ result[1] = trace[Len(trace)].arg
        /\ \A i \in 1..Len(trace) : Untouched(trace[i])
    /\ (entry.call = 2 /\ entry.prev[1].method = "readMapFromFile" /\ Finished) =>
        /\ entry.prev[1].pc = pc
        /\ pc = "done" => entry.prev[1].result = <<map>>

\* readMapFromFile and then readFromFile got through a file with two floors,
\* one of them with a segmented wall
C23_Witness ==
    /\ entry.call = 2 /\ pc = "done"
    /\ entry.prev[1].method = "readMapFromFile"
    /\ Len(entry.prev[1].result) = 1
    /\ Len(entry.prev[1].result[1].floors) > 0

----------------------------------------------------------------------------
(* C24: a document that parses and has no map element makes the call end in
   a failure that reaches the caller; the missing element is never
   dereferenced and no hook is called *)
C24_NoMapElementFails ==
    (doc.file = "ok" /\ ~has_node(doc.root, "map") /\ pc \notin {"start", "processMap"}) =>
        /\ pc = "failed"
        /\ err # ""
        /\ trace = <<>>

----------------------------------------------------------------------------
(* C25: the segment of a door runs from the anchor start + d * atLinePos to
   the anchor plus normalize(d) * width, minus when leftRight is set, d being
   end - start of the wall; it is emitted with its two points exchanged when
   that is needed for start.x <= end.x *)
\* the point at fraction pos of the wall
Anchor(w, pos) == PAdd(WallStart(w), PMul(PSub(WallEnd(w), WallStart(w)), pos))
\* the vector of length len along the wall
AlongWall(w, len) == PMul(PNormalized(PSub(WallEnd(w), WallStart(w))), len)
\* the two points in ascending x, left as they are when the x are equal
AscendingX(a, b) == IF b.x < a.x THEN <<b, a>> ELSE <<a, b>>

C25_DoorSegment ==
    Segmented =>
        \A j \in 1..Len(wall.segments) :
            wall.segments[j].type = "Door" =>
                LET sg == wall.segments[j]
                    door == wall.doors[sg.listIndex + 1]
                    anchor == Anchor(wall, door.atLinePos)
                    far == IF door.leftRight
                           THEN PSub(anchor, AlongWall(wall, door.width))
                           ELSE PAdd(anchor, AlongWall(wall, door.width))
                IN  /\ <<sg.start, sg.end>> = AscendingX(anchor, far)
                    /\ sg.start.x <= sg.end.x

\* a door with leftRight set on a wall that runs towards larger x: the
\* segment ends at the anchor
C25_Witness ==
    /\ Segmented
    /\ wall.x1 < wall.x2 /\ wall.y1 # wall.y2
    /\ \E j \in 1..Len(wall.segments) :
        /\ wall.segments[j].type = "Door"
        /\ wall.doors[wall.segments[j].listIndex + 1].leftRight
        /\ wall.doors[wall.segments[j].listIndex + 1].atLinePos = 50
        /\ wall.segments[j].end = Anchor(wall, 50)
        /\ wall.segments[j].start # wall.segments[j].end

----------------------------------------------------------------------------
(* C26: the segment of a window is centred on the anchor start + d *
   atLinePos: its points are the anchor minus and plus normalize(d) * width / 2,
   put so that start.x <= end.x; its length is width and its midpoint the
   anchor *)
C26_WindowSegment ==
    Segmented =>
        \A j \in 1..Len(wall.segments) :
            wall.segments[j].type = "Window" =>
                LET sg == wall.segments[j]
                    window == wall.windows[sg.listIndex + 1]
                    anchor == Anchor(wall, window.atLinePos)
                    half == PDiv(AlongWall(wall, window.width), 200)
                IN  /\ <<sg.start, sg.end>> = AscendingX(PSub(anchor, half), PAdd(anchor, half))
                    /\ sg.start.x <= sg.end.x
                    /\ PLength(PSub(sg.end, sg.start)) = window.width
                    /\ PDiv(PAdd(sg.start, sg.end), 200) = anchor

\* a window on a diagonal wall that runs towards smaller x
C26_Witness ==
    /\ Segmented
    /\ wall.x2 < wall.x1 /\ wall.y1 # wall.y2
    /\ \E j \in 1..Len(wall.segments) :
        /\ wall.segments[j].type = "Window"
        /\ wall.segments[j].start.x < wall.segments[j].end.x
        /\ wall.segments[j].start = PAdd(Anchor(wall, wall.windows[1].atLinePos),
                                         PDiv(AlongWall(wall, wall.windows[1].width), 200))

----------------------------------------------------------------------------
(* C27: after the segmentation the listIndex of every Door segment is an
   index of wall.doors and that of every Window segment an index of
   wall.windows, every index is the listIndex of exactly one segment, the
   points of the segment are computed from the door or window at that index,
   and every Wall segment has the listIndex -1 *)
SegmentsOf(w, type, idx) ==
    {j \in 1..Len(w.segments) : w.segments[j].type = type /\ w.segments[j].listIndex = idx}
Ends(sg) == {sg.start, sg.end}

C27_BackIndices ==
    Segmented =>
        /\ \A j \in 1..Len(wall.segments) :
            LET sg == wall.segments[j]
            IN  CASE sg.type = "Wall" -> sg.listIndex = -1
                  [] sg.type = "Door" ->
                        /\ sg.listIndex \in 0..(Len(wall.doors) - 1)
                        /\ LET door == wall.doors[sg.listIndex + 1]
                               anchor == Anchor(wall, door.atLinePos)
                               len == IF door.leftRight THEN 0 - door.width ELSE door.width
                           IN  Ends(sg) = {anchor, PAdd(anchor, AlongWall(wall, len))}
                  [] sg.type = "Window" ->
                        /\ sg.listIndex \in 0..(Len(wall.windows) - 1)
                        /\ LET window == wall.windows[sg.listIndex + 1]
                               anchor == Anchor(wall, window.atLinePos)
                               half == PDiv(AlongWall(wall, window.width), 200)
                           IN  Ends(sg) = {PSub(anchor, half), PAdd(anchor, half)}
        /\ \A i \in 1..Len(wall.doors) : Cardinality(SegmentsOf(wall, "Door", i - 1)) = 1
        /\ \A i \in 1..Len(wall.windows) : Cardinality(SegmentsOf(wall, "Window", i - 1)) = 1

\* two doors and two windows, both listed against the order along the wall
C27_Witness ==
    /\ Segmented
    /\ Len(wall.doors) = 2 /\ Len(wall.windows) = 2
    /\ Len(wall.segments) = 9
    /\ wall.segments[2].type = "Door" /\ wall.segments[2].listIndex = 1
    /\ wall.segments[4].type = "Window" /\ wall.segments[4].listIndex = 1
    /\ wall.segments[6].type = "Door" /\ wall.segments[6].listIndex = 0
    /\ wall.segments[8].type = "Window" /\ wall.segments[8].listIndex = 0

----------------------------------------------------------------------------
(* C28: when the footprint of a door or window lies outside the wall's span
   the segmentation still completes with all 2n+1 segments, and what is wrong
   shows only as a filler segment with start.x greater than end.x *)
\* an opening reaches beyond one of the wall's endpoints
OutsideSpan(w) ==
    LET os == OpeningSegments([w EXCEPT !.segments = <<>>])
        span == [start |-> WallStart(w), end |-> WallEnd(w)]
    IN  \E i \in 1..Len(os) : Lo(os[i], w) < Lo(span, w) \/ Hi(span, w) < Hi(os[i], w)
ReversedFiller(w) ==
    \E j \in 1..Len(w.segments) :
        w.segments[j].type = "Wall" /\ w.segments[j].start.x > w.segments[j].end.x

C28_OutsideSpanReversedFiller ==
    (Segmented /\ Openings >= 1 /\ OutsideSpan(wall)) =>
        /\ Len(wall.segments) = 2 * Openings + 1
        /\ ReversedFiller(wall)
        /\ \A j \in 1..Len(wall.segments) :
            wall.segments[j].type # "Wall" => wall.segments[j].start.x <= wall.segments[j].end.x

----------------------------------------------------------------------------
(* C29: at every enter hook the entity has its attributes and no children
   yet: the Floor of enterFloor has an empty outline and empty walls, points
   of interest, ground-truth points, access points, beacons and fingerprint
   locations; the Outline of enterOutline has no polygons; the vector of
   enterWalls is empty; the Wall of enterWall has no doors, windows and
   segments; the EarthRegistration of enterEarthRegistration has no
   correspondences *)
C29_EnterBeforeChildren ==
    \A n \in 1..Len(trace) :
        LET e == trace[n]
        IN  CASE e.hook = "enterFloor" ->
                    LET x == xFloorList[e.path[1]]
                    IN  /\ e.arg.name = strAttribute(x, "name", "")
                        /\ e.arg.atHeight = floatAttribute(x, "atHeight", 0)
                        /\ e.arg.height = floatAttribute(x, "height", 0)
                        /\ e.arg.outline.polygons = <<>>
                        /\ e.arg.walls = <<>> /\ e.arg.pois = <<>>
                        /\ e.arg.groundtruthPoints = <<>> /\ e.arg.accessPoints = <<>>
                        /\ e.arg.beacons = <<>> /\ e.arg.fingerprintLocations = <<>>
              [] e.hook = "enterOutline" -> e.arg.polygons = <<>>
              [] e.hook = "enterWalls" -> e.arg = <<>>
              [] e.hook = "enterWall" ->
                    LET x == XWallsAt(e.path[1])[e.path[2]]
                    IN  /\ e.arg.x1 = floatAttribute(x, "x1", 0)
                        /\ e.arg.y1 = floatAttribute(x, "y1", 0)
                        /\ e.arg.x2 = floatAttribute(x, "x2", 0)
                        /\ e.arg.y2 = floatAttribute(x, "y2", 0)
                        /\ e.arg.material = intAttribute(x, "material", 0)
                        /\ e.arg.type = intAttribute(x, "type", 0)
                        /\ e.arg.doors = <<>> /\ e.arg.windows = <<>>
                        /\ e.arg.segments = <<>>
              [] e.hook = "enterEarthRegistration" -> e.arg.correspondences = <<>>
              [] OTHER -> TRUE

\* the second floor is entered after a first floor with an outline and a wall
\* was left
C29_Witness ==
    /\ Len(map.floors) = 1
    /\ map.floors[1].outline.polygons # <<>> /\ map.floors[1].walls # <<>>
    /\ trace # <<>>
    /\ trace[Len(trace)].hook = "enterFloor" /\ trace[Len(trace)].path = <<2>>

----------------------------------------------------------------------------
(* C30: the document order is kept at every level: map.floors, the walls of
   each floor, the doors and windows of each wall, the polygons of each
   outline and the points of each polygon are the source elements of that
   name that were not vetoed, in document order, each once; children of
   another name are ignored *)
\* the indices in 1..n of the elements below prefix that hook did not veto
KeptIdx(hook, prefix, n) ==
    SelectSeq([i \in 1..n |-> i],
              LAMBDA i : ~\E m \in 1..Len(trace) :
                            /\ trace[m].hook = hook /\ trace[m].c = "veto"
                            /\ trace[m].path = Append(prefix, i))
\* what the call of hook for the element at path p left
OutAt(hook, p) == (CHOOSE m \in 1..Len(trace) : trace[m].hook = hook /\ trace[m].path = p)
\* the openings stored in wall w are the kept elements xs, in their order
OpeningsInOrder(stored, hook, p, xs) ==
    LET kept == KeptIdx(hook, p, Len(xs))
    IN  /\ Len(stored) = Len(kept)
        /\ \A m \in 1..Len(kept) : stored[m] = trace[OutAt(hook, Append(p, kept[m]))].out
StoredInOrder(withOpenings) ==
    LET kf == KeptIdx("enterFloor", <<>>, Len(xFloorList))
    IN  /\ Len(map.floors) = Len(kf)
        /\ \A k \in 1..Len(kf) :
            LET f == kf[k]
                fl == map.floors[k]
                xws == XWallsAt(f)
                kw == KeptIdx("enterWall", <<f>>, Len(xws))
                xPolygons == foreachNode(first_node(xFloorList[f], "outline"), "polygon")
            IN  /\ fl = trace[OutAt("leaveFloor", <<f>>)].out
                /\ Len(fl.walls) = Len(kw)
                /\ \A j \in 1..Len(kw) :
                    /\ SameWall(fl.walls[j], trace[OutAt("enterWall", <<f, kw[j]>>)].out)
                    /\ withOpenings =>
                        /\ OpeningsInOrder(fl.walls[j].doors, "enterWallDoor", <<f, kw[j]>>,
                                           foreachNode(xws[kw[j]], "door"))
                        /\ OpeningsInOrder(fl.walls[j].windows, "enterWallWindow", <<f, kw[j]>>,
                                           foreachNode(xws[kw[j]], "window"))
                /\ IF FloorCalls("leaveOutline", f) # <<>>
                   THEN /\ FloorCalls("leaveOutline", f)[1].arg.polygons
                              = [i \in 1..Len(xPolygons) |-> Polygon2DOf(xPolygons[i])]
                        /\ \A i \in 1..Len(xPolygons) :
                              LET xPoints == foreachNode(xPolygons[i], "point")
                              IN  Polygon2DOf(xPolygons[i]).points
                                    = [q \in 1..Len(xPoints) |-> PointOf(xPoints[q])]
                        /\ fl.outline = FloorCalls("leaveOutline", f)[1].out
                   ELSE fl.outline.polygons = <<>>

C30_DocumentOrderKept ==
    pc = "done" => StoredInOrder(TRUE)

----------------------------------------------------------------------------
(* C31: the hook calls of a parse are well nested, whatever the document and
   whatever the observer vetoes: every leave call closes the most recent open
   enter call, which is of the same kind and for the same entity and did not
   veto; when the parse has ended without failure no enter call that did not
   veto is left open *)
\* the enter hook that a leave hook closes
EnterOf ==
    [h \in {"leaveMap", "leaveEarthRegistration", "leaveEarthPosMapPos", "leaveFloor",
            "leaveOutline", "leaveWalls", "leaveWall", "leaveWallDoor", "leaveWallWindow",
            "leavePointOfInterests", "leaveGrundtruthPoints", "leaveAccessPoints",
            "leaveBeacons", "leaveFingerprintLocations"} |->
        CASE h = "leaveMap" -> "enterMap"
          [] h = "leaveEarthRegistration" -> "enterEarthRegistration"
          [] h = "leaveEarthPosMapPos" -> "enterEarthPosMapPos"
          [] h = "leaveFloor" -> "enterFloor"
          [] h = "leaveOutline" -> "enterOutline"
          [] h = "leaveWalls" -> "enterWalls"
          [] h = "leaveWall" -> "enterWall"
          [] h = "leaveWallDoor" -> "enterWallDoor"
          [] h = "leaveWallWindow" -> "enterWallWindow"
          [] h = "leavePointOfInterests" -> "enterPointOfInterests"
          [] h = "leaveGrundtruthPoints" -> "enterGrundtruthPoints"
          [] h = "leaveAccessPoints" -> "enterAccessPoints"
          [] h = "leaveBeacons" -> "enterBeacons"
          [] h = "leaveFingerprintLocations" -> "enterFingerprintLocations"]
EnterHooks == {EnterOf[h] : h \in DOMAIN EnterOf}
Misnested == <<<<"misnested", <<>>>>>>
\* the enter calls that are open after the first n calls, the latest last
OpenAfter[n \in Nat] ==
    IF n = 0 THEN <<>>
    ELSE LET s == OpenAfter[n - 1]
             e == trace[n]
         IN  IF s = Misnested THEN s
             ELSE IF e.hook \in DOMAIN EnterOf
             THEN IF s # <<>> /\ s[Len(s)] = <<EnterOf[e.hook], e.path>>
                  THEN SubSeq(s, 1, Len(s) - 1)
                  ELSE Misnested
             ELSE IF e.hook \notin EnterHooks THEN Misnested
             ELSE IF e.c = "veto" THEN s
             ELSE Append(s, <<e.hook, e.path>>)

C31_WellNested ==
    /\ OpenAfter[Len(trace)] # Misnested
    /\ pc = "done" => OpenAfter[Len(trace)] = <<>>

\* a parse with a veto ended; at some point the hooks of a map, a floor, its
\* walls, a wall and a door were open
C31_Witness ==
    /\ pc = "done"
    /\ \E m \in 1..Len(trace) : trace[m].c = "veto"
    /\ \E n \in 1..Len(trace) : Len(OpenAfter[n]) = 5

----------------------------------------------------------------------------
(* C32: gtPointById(id, result) returns true and puts the first ground-truth
   point of the floor with that id into result when there is one; it returns
   false and leaves result as it was when there is none; the ground-truth
   points of the floor are the same after the call *)
C32_GtPointById ==
    pc = "returned" =>
        LET before == entry.prev[1]
            gts == before.floor.groundtruthPoints
            hits == {i \in 1..Len(gts) : gts[i].id = entry.arg}
        IN  /\ IF hits # {}
               THEN /\ result[2] = TRUE
                    /\ \E i \in hits : /\ \A j \in hits : i <= j
                                       /\ result[1] = gts[i]
               ELSE /\ result[2] = FALSE
                    /\ result[1] = before.result
            /\ floor.groundtruthPoints = gts
            /\ floor = before.floor

\* two different points with the id asked for, the second one is not taken
C32_Witness ==
    /\ pc = "returned"
    /\ Len(floor.groundtruthPoints) = 3
    /\ floor.groundtruthPoints[1].id # entry.arg
    /\ floor.groundtruthPoints[2].id = entry.arg
    /\ floor.groundtruthPoints[3].id = entry.arg
    /\ floor.groundtruthPoints[3] # floor.groundtruthPoints[2]
    /\ result = <<floor.groundtruthPoints[2], TRUE>>


----------------------------------------------------------------------------
(* C33: the document of svgString() *)

SvgMisnested == <<"misnested">>

\* the elements of document d that are open after its first n elements,
\* the innermost last; SvgMisnested once a closing tag did not close the
\* innermost open element
SvgOpenAfter(d) ==
    LET open[n \in 0..Len(d)] ==
            IF n = 0 THEN <<>>
            ELSE LET s == open[n - 1]
                     e == d[n]
                 IN  IF s = SvgMisnested THEN SvgMisnested
                     ELSE IF e.kind = "open" THEN Append(s, e.tag)
                     ELSE IF e.kind = "empty" THEN s
                     ELSE IF s # <<>> /\ s[Len(s)] = e.tag
                          THEN SubSeq(s, 1, Len(s) - 1)
                          ELSE SvgMisnested
    IN  open

\* how many elements of d have the kind and are svg or g elements
SvgCount(d, kind) ==
    Cardinality({n \in 1..Len(d) : d[n].kind = kind /\ d[n].tag \in {"svg", "g"}})

\* indentLevel is never negative during the parse and 0 after leaveMap
SvgIndentLevelOk ==
    /\ listener.indentLevel >= 0
    /\ pc \in {"svgString", "done"} => listener.indentLevel = 0

\* as many svg and g elements are closed as are opened: the root, the
\* translate group and one group for each floor
SvgClosedAsOftenAsOpened ==
    pc = "done" =>
        /\ SvgCount(result[1], "open") = 2 + Len(map.floors)
        /\ SvgCount(result[1], "close") = 2 + Len(map.floors)

\* C33: after a complete parse driven through SvgListener the document
\* returned by svgString() has properly nested tags: every opened svg and g
\* element (the root svg, the translate group, one group for each floor) is
\* closed exactly once, the last opened first, and indentLevel is never
\* negative during the parse and is 0 after leaveMap.
C33_SvgProperlyNested ==
    /\ SvgIndentLevelOk
    /\ SvgClosedAsOftenAsOpened
    /\ pc = "done" =>
        LET d == result[1]
        IN  /\ \A n \in 0..Len(d) : SvgOpenAfter(d)[n] # SvgMisnested
            /\ SvgOpenAfter(d)[Len(d)] = <<>>

=============================================================================
